---- MODULE Spec2Model ----
(***************************************************************************)
(* A model of contrail: the byte arenas and typed pointers of mem.rs, the  *)
(* trail with its snapshot stack of lib.rs, the storage modes of           *)
(* storage.rs and the sparse set of contrail-collections.                  *)
(*                                                                         *)
(* Arenas are sequences of bytes (0..255); byte offset o of the code is    *)
(* index o + 1 of the sequence.  Values are written to and read from the   *)
(* arenas through the byte codec, never stored as values.                  *)
(***************************************************************************)
EXTENDS Integers, Sequences, FiniteSets, TLC

\* ------------------------------------------------------------------ bounds

\* Largest number of snapshots the model lets the stack hold.
MaxTrail == 2
\* Largest universe 0..n of a sparse set.
MaxN == 3
\* Longest input sequence handed to SparseSet::intersect.
MaxInput == 2
\* Largest number of new_level calls, and of backtrack calls, that are counted.
MaxCalls == 3
\* The most nodes of a linked list arena.
MaxNodes == 3
\* The most blocks of a bit set.
MaxBlocks == 3
\* The most elements of the array pointer built on a bare arena.
MaxLen == 3
\* The most calls of next on an iterator that has returned None.
MaxNone == 2

\* ------------------------------------------------------- program constants

\* std::mem::size_of of the primitive types the model stores.
LENGTH_i16 == 2
LENGTH_u16 == 2
LENGTH_usize == 8
LENGTH_u64 == 8

\* The phantom type T of a handle: its byte length, whether it is signed, and
\* whether a value of it is held as its set of one bits (bit 0 the least
\* significant) rather than as a number.
TYPE_i16 == [LENGTH |-> LENGTH_i16, signed |-> TRUE, bits |-> FALSE]
TYPE_u16 == [LENGTH |-> LENGTH_u16, signed |-> FALSE, bits |-> FALSE]
TYPE_usize == [LENGTH |-> LENGTH_usize, signed |-> FALSE, bits |-> FALSE]
TYPE_u64 == [LENGTH |-> LENGTH_u64, signed |-> FALSE, bits |-> TRUE]

\* const BLOCK_SIZE of the bit set.
BLOCK_SIZE == 64

\* Option::None of a u64 result; Some(w) is w.
NONE == -1

\* The value of an expression whose evaluation panicked (a failed assert!, an
\* overflowing subtraction).  It lies outside the range of every stored type.
PANIC == -100000

\* ------------------------------------------------------------- byte codec

RECURSIVE ToBytes(_, _)
\* The transmute of an unsigned integer to LENGTH bytes, least significant
\* byte first (the layout of a little-endian target).
ToBytes(u, length) ==
    IF length = 0 THEN <<>> ELSE <<u % 256>> \o ToBytes(u \div 256, length - 1)

RECURSIVE FromBytesAt(_, _)
\* The unsigned integer that bytes[k], bytes[k + 1], ... stand for.
FromBytesAt(bytes, k) ==
    IF k > Len(bytes) THEN 0 ELSE bytes[k] + 256 * FromBytesAt(bytes, k + 1)

\* The transmute of bytes back to an unsigned integer.
FromBytes(bytes) == FromBytesAt(bytes, 1)

RECURSIVE Pow2(_)
Pow2(k) == IF k = 0 THEN 1 ELSE 2 * Pow2(k - 1)

RECURSIVE ByteOf(_, _, _)
\* Byte j (from 0) of the value with the one bits ones: its bits from bit b up.
ByteOf(ones, j, b) ==
    IF b = 8 THEN 0
    ELSE (IF 8 * j + b \in ones THEN 1 ELSE 0) + 2 * ByteOf(ones, j, b + 1)

\* The transmute of the value with the one bits ones to LENGTH bytes.
BitsToBytes(ones, length) == [k \in 1..length |-> ByteOf(ones, k - 1, 0)]

RECURSIVE OnesOf(_, _)
\* The one bits of a byte whose least significant bit is bit b of the value.
OnesOf(byte, b) ==
    IF byte = 0 THEN {}
    ELSE (IF byte % 2 = 1 THEN {b} ELSE {}) \cup OnesOf(byte \div 2, b + 1)

\* The transmute of bytes back to the set of one bits.
BytesToBits(bytes) == UNION {OnesOf(bytes[k], 8 * (k - 1)) : k \in 1..Len(bytes)}

\* Bytes::write_bytes: the bytes of val (two's complement when T is signed).
write_bytes(val, T) ==
    IF T.bits THEN BitsToBytes(val, T.LENGTH)
    ELSE ToBytes(IF val < 0 THEN val + Pow2(8 * T.LENGTH) ELSE val, T.LENGTH)

\* A read that takes the bytes of every integer type as unsigned.
read_bytes_unsigned(bytes, T) ==
    IF T.bits THEN BytesToBits(bytes) ELSE FromBytes(bytes)

\* Bytes::read_bytes: the value the LENGTH bytes stand for.
read_bytes(bytes, T) ==
    IF T.bits THEN BytesToBits(bytes)
    ELSE LET u == FromBytes(bytes)
         IN IF T.signed /\ u >= Pow2(8 * T.LENGTH - 1)
            THEN u - Pow2(8 * T.LENGTH)
            ELSE u

\* ----------------------------------------------------- memory and pointers

\* bytes[offset .. offset + LENGTH) of an arena.
Span(bytes, offset, length) == SubSeq(bytes, offset + 1, offset + length)

\* A write that puts new in front of bytes[offset ..) instead of over it.
WriteSpan_inserts(bytes, offset, new) ==
    SubSeq(bytes, 1, offset) \o new \o SubSeq(bytes, offset + 1, Len(bytes))

\* The arena with new written over bytes[offset .. offset + Len(new)).
WriteSpan(bytes, offset, new) ==
    SubSeq(bytes, 1, offset) \o new \o SubSeq(bytes, offset + Len(new) + 1, Len(bytes))

Zeros(n) == [k \in 1..n |-> 0]

\* #[derive(Bytes)] on struct Foo { a: i64, b: [u8; 3] }: the transmute of a Foo to
\* size_of::<Foo>() bytes.  layout is where the build put the fields; the bytes that
\* belong to no field are padding, which the transmute reads uninitialized, so that
\* each is whatever pad gives.
Foo_write_bytes(self, layout, pad) ==
    [k \in 1..layout.LENGTH |->
        IF k - 1 \in layout.a..(layout.a + LENGTH_u64 - 1)
        THEN BitsToBytes(self.a, LENGTH_u64)[k - layout.a]
        ELSE IF k - 1 \in layout.b..(layout.b + Len(self.b) - 1)
        THEN self.b[k - layout.b]
        ELSE pad[k]]

\* The derived read_bytes of Foo: the transmute of the bytes back to a Foo.
Foo_read_bytes(bytes, layout) ==
    [a |-> BytesToBits(Span(bytes, layout.a, LENGTH_u64)),
     b |-> Span(bytes, layout.b, 3)]

\* MemoryBuilder::new
MemoryBuilder_new == <<>>

\* MemoryBuilder::finish
MemoryBuilder_finish(builder) == builder

\* A new that takes the offset of the last byte the builder holds.
Pointer_new_on_last_byte(builder, val, T) ==
    LET offset == IF builder = <<>> THEN 0 ELSE Len(builder) - 1
        grown == builder \o Zeros(T.LENGTH)
    IN [builder |-> WriteSpan(grown, offset, write_bytes(val, T)),
        pointer |-> [offset |-> offset, T |-> T]]

\* Pointer::new: the grown builder and the new handle.
Pointer_new(builder, val, T) ==
    LET offset == Len(builder)
        grown == builder \o Zeros(T.LENGTH)
    IN [builder |-> WriteSpan(grown, offset, write_bytes(val, T)),
        pointer |-> [offset |-> offset, T |-> T]]

\* Pointer::get
Pointer_get(memory, p) == read_bytes(Span(memory, p.offset, p.T.LENGTH), p.T)

\* A set that writes the first byte of the value only.
Pointer_set_first_byte(memory, p, val) ==
    WriteSpan(memory, p.offset, SubSeq(write_bytes(val, p.T), 1, 1))

\* Pointer::set
Pointer_set(memory, p, val) == WriteSpan(memory, p.offset, write_bytes(val, p.T))

\* The closures the model hands to update: |x| x + 1 and |x| x - 1, and with
\* AllClosures also a closure that panics when it is called.
Closures == {"inc", "dec"}
AllClosures == Closures \cup {"abort"}
Apply(f, x) ==
    CASE f = "inc" -> x + 1
      [] f = "dec" -> x - 1
      [] OTHER -> PANIC

\* An update that clears the slot before it calls the closure.
Pointer_update_clears_first(memory, p, f) ==
    LET cleared == Pointer_set(memory, p, 0)
        val == Apply(f, Pointer_get(memory, p))
    IN IF val = PANIC THEN [ok |-> FALSE, memory |-> cleared]
       ELSE [ok |-> TRUE, memory |-> Pointer_set(cleared, p, val)]

\* Pointer::update: the argument of set is evaluated before set is called, so the
\* arena is as it was, and ok = FALSE, when the closure panics.
Pointer_update(memory, p, f) ==
    LET val == Apply(f, Pointer_get(memory, p))
    IN IF val = PANIC THEN [ok |-> FALSE, memory |-> memory]
       ELSE [ok |-> TRUE, memory |-> Pointer_set(memory, p, val)]

RECURSIVE WriteAll(_, _, _, _)
\* The loop of ArrayPointer::new: vals written one after the other from val_offset.
WriteAll(bytes, val_offset, vals, T) ==
    IF vals = <<>> THEN bytes
    ELSE WriteAll(WriteSpan(bytes, val_offset, write_bytes(Head(vals), T)),
                  val_offset + T.LENGTH, Tail(vals), T)

\* ArrayPointer::new
ArrayPointer_new(builder, vals, T) ==
    LET offset == Len(builder)
        grown == builder \o Zeros(T.LENGTH * Len(vals))
    IN [builder |-> WriteAll(grown, offset, vals, T),
        pointer |-> [offset |-> offset, len |-> Len(vals), T |-> T]]

\* ArrayPointer::len
ArrayPointer_len(a) == a.len

\* assert!(i < self.len), for an index that may itself have panicked.
InBounds(a, i) == i >= 0 /\ i < a.len

\* ArrayPointer::get: the element, or PANIC when the assertion fails.
ArrayPointer_get(memory, a, i) ==
    IF InBounds(a, i)
    THEN read_bytes(Span(memory, a.offset + i * a.T.LENGTH, a.T.LENGTH), a.T)
    ELSE PANIC

\* A set without the assertion on the index.
ArrayPointer_set_unchecked(memory, a, i, val) ==
    IF i >= 0 /\ (a.T.bits \/ val # PANIC)
    THEN [ok |-> TRUE,
          memory |-> WriteSpan(memory, a.offset + i * a.T.LENGTH, write_bytes(val, a.T))]
    ELSE [ok |-> FALSE, memory |-> memory]

\* ArrayPointer::set: the written arena, or ok = FALSE and the arena as it was
\* when the assertion fails or the value to store was never computed.
ArrayPointer_set(memory, a, i, val) ==
    IF InBounds(a, i) /\ (a.T.bits \/ val # PANIC)
    THEN [ok |-> TRUE,
          memory |-> WriteSpan(memory, a.offset + i * a.T.LENGTH, write_bytes(val, a.T))]
    ELSE [ok |-> FALSE, memory |-> memory]

\* A closure applied to a value that was never computed is never called.
ApplyTo(f, x) == IF x = PANIC THEN PANIC ELSE Apply(f, x)

\* ArrayPointer::update
ArrayPointer_update(memory, a, i, f) ==
    ArrayPointer_set(memory, a, i, ApplyTo(f, ArrayPointer_get(memory, a, i)))

\* A swap that reads element i again after it has written it.
ArrayPointer_swap_no_temp(memory, a, i, j) ==
    LET first == ArrayPointer_set(memory, a, i, ArrayPointer_get(memory, a, j))
    IN IF first.ok
       THEN ArrayPointer_set(first.memory, a, j, ArrayPointer_get(first.memory, a, i))
       ELSE first

\* ArrayPointer::swap: both reads of the first set come before its write.
ArrayPointer_swap(memory, a, i, j) ==
    LET temp_i == ArrayPointer_get(memory, a, i)
        first == IF temp_i = PANIC
                 THEN [ok |-> FALSE, memory |-> memory]
                 ELSE ArrayPointer_set(memory, a, i, ArrayPointer_get(memory, a, j))
    IN IF first.ok THEN ArrayPointer_set(first.memory, a, j, temp_i) ELSE first

\* ------------------------------------------------------------ storage modes

StorageModes == {"Backtrackable", "NonBacktrackable"}

\* StorageMode::builder_mut
builder_mut(builder, M) ==
    IF M = "Backtrackable" THEN builder.backtrackable_mem
    ELSE builder.non_backtrackable_mem

\* StorageMode::memory
memory(t, M) ==
    IF M = "Backtrackable" THEN t.backtrackable_mem ELSE t.non_backtrackable_mem

\* A memory_mut that selects the trailed arena whatever the mode.
memory_mut_trailed(t, M, mem) == [t EXCEPT !.backtrackable_mem = mem]

\* StorageMode::memory_mut, with the arena it selects replaced by mem.
memory_mut(t, M, mem) ==
    IF M = "Backtrackable" THEN [t EXCEPT !.backtrackable_mem = mem]
    ELSE [t EXCEPT !.non_backtrackable_mem = mem]

\* The builder with the MemoryBuilder that M selects replaced by b.
builder_put(builder, M, b) ==
    IF M = "Backtrackable" THEN [builder EXCEPT !.backtrackable_mem = b]
    ELSE [builder EXCEPT !.non_backtrackable_mem = b]

\* ------------------------------------------------------------------ trail

\* A trail t is [backtrackable_mem, non_backtrackable_mem, trail, panicked]:
\* the three fields of struct Trail, and whether an operation on it panicked.

\* TrailBuilder::new
TrailBuilder_new ==
    [backtrackable_mem |-> MemoryBuilder_new, non_backtrackable_mem |-> MemoryBuilder_new]

\* TrailBuilder::finish
TrailBuilder_finish(builder) ==
    [backtrackable_mem |-> MemoryBuilder_finish(builder.backtrackable_mem),
     non_backtrackable_mem |-> MemoryBuilder_finish(builder.non_backtrackable_mem),
     trail |-> <<>>,
     panicked |-> FALSE]

\* A new_level that skips the clone when the arena equals the newest snapshot.
Trail_new_level_dedup(t) ==
    IF t.trail # <<>> /\ t.trail[Len(t.trail)] = t.backtrackable_mem THEN t
    ELSE [t EXCEPT !.trail = Append(@, t.backtrackable_mem)]

\* Trail::new_level
Trail_new_level(t) == [t EXCEPT !.trail = Append(@, t.backtrackable_mem)]

\* A backtrack that pops the snapshot and drops it.
Trail_backtrack_drops(t) ==
    IF t.trail # <<>> THEN [t EXCEPT !.trail = SubSeq(t.trail, 1, Len(t.trail) - 1)] ELSE t

\* A backtrack that assigns the snapshot to the other arena.
Trail_backtrack_other_arena(t) ==
    IF t.trail # <<>>
    THEN [t EXCEPT !.non_backtrackable_mem = t.trail[Len(t.trail)],
                   !.trail = SubSeq(t.trail, 1, Len(t.trail) - 1)]
    ELSE t

\* A backtrack that empties the stack, restoring its oldest snapshot.
Trail_backtrack_clears(t) ==
    IF t.trail # <<>>
    THEN [t EXCEPT !.backtrackable_mem = t.trail[1], !.trail = <<>>]
    ELSE t

\* A backtrack that unwraps the popped snapshot: it panics on an empty stack.
Trail_backtrack_unwraps(t) ==
    IF t.trail # <<>>
    THEN [t EXCEPT !.backtrackable_mem = t.trail[Len(t.trail)],
                   !.trail = SubSeq(t.trail, 1, Len(t.trail) - 1)]
    ELSE [t EXCEPT !.panicked = TRUE]

\* A backtrack that takes the oldest snapshot instead of the newest.
Trail_backtrack_fifo(t) ==
    IF t.trail # <<>>
    THEN [t EXCEPT !.backtrackable_mem = t.trail[1], !.trail = Tail(t.trail)]
    ELSE t

\* Trail::backtrack
Trail_backtrack(t) ==
    IF t.trail # <<>>
    THEN [t EXCEPT !.backtrackable_mem = t.trail[Len(t.trail)],
                   !.trail = SubSeq(t.trail, 1, Len(t.trail) - 1)]
    ELSE t

\* Trail::trail_len
Trail_trail_len(t) == Len(t.trail)

\* Trail::is_trail_empty
Trail_is_trail_empty(t) == t.trail = <<>>

\* The trail after a panic: nothing more is written.
Unwind(t) == [t EXCEPT !.panicked = TRUE]

\* ------------------------------------------------------- values and arrays

\* Value::new: the grown builder and the handle, a pointer tagged with M.
Value_new(builder, M, val, T) ==
    LET r == Pointer_new(builder_mut(builder, M), val, T)
    IN [builder |-> builder_put(builder, M, r.builder),
        handle |-> [pointer |-> r.pointer, M |-> M]]

\* Value::get
Value_get(t, v) == IF t.panicked THEN PANIC ELSE Pointer_get(memory(t, v.M), v.pointer)

\* Value::set
Value_set(t, v, new_val) ==
    IF t.panicked \/ new_val = PANIC THEN Unwind(t)
    ELSE memory_mut(t, v.M, Pointer_set(memory(t, v.M), v.pointer, new_val))

\* The trail after a write through a pointer that returned r.
Written(t, M, r) == IF r.ok THEN memory_mut(t, M, r.memory) ELSE Unwind(t)

\* Value::update
Value_update(t, v, f) ==
    IF t.panicked THEN t
    ELSE Written(t, v.M, Pointer_update(memory(t, v.M), v.pointer, f))

\* Array::new
Array_new(builder, M, vals, T) ==
    LET r == ArrayPointer_new(builder_mut(builder, M), vals, T)
    IN [builder |-> builder_put(builder, M, r.builder),
        handle |-> [pointer |-> r.pointer, M |-> M]]

\* Array::len
Array_len(a) == ArrayPointer_len(a.pointer)

\* Array::get
Array_get(t, a, i) ==
    IF t.panicked THEN PANIC ELSE ArrayPointer_get(memory(t, a.M), a.pointer, i)

\* Array::set
Array_set(t, a, i, new_val) ==
    IF t.panicked THEN t
    ELSE Written(t, a.M, ArrayPointer_set(memory(t, a.M), a.pointer, i, new_val))

\* Array::update
Array_update(t, a, i, f) ==
    IF t.panicked THEN t
    ELSE Written(t, a.M, ArrayPointer_update(memory(t, a.M), a.pointer, i, f))

\* Array::swap
Array_swap(t, a, i, j) ==
    IF t.panicked THEN t
    ELSE Written(t, a.M, ArrayPointer_swap(memory(t, a.M), a.pointer, i, j))

\* Array::iter: the iterator, at index 0.
ArrayIter(a) == [index |-> 0, array |-> a]

\* A next that starts over once it has returned None.
ArrayIter_next_restarts(t, it) ==
    IF it.index = Array_len(it.array)
    THEN [item |-> NONE, iter |-> [it EXCEPT !.index = 0]]
    ELSE [item |-> Array_get(t, it.array, it.index), iter |-> [it EXCEPT !.index = @ + 1]]

\* ArrayIter::next: the item returned, NONE for None, and the iterator after it.
ArrayIter_next(t, it) ==
    IF it.index = Array_len(it.array)
    THEN [item |-> NONE, iter |-> it]
    ELSE [item |-> Array_get(t, it.array, it.index), iter |-> [it EXCEPT !.index = @ + 1]]

\* ArrayIter: the items next() returns until it returns None.
Array_iter(t, a) == [i \in 1..Array_len(a) |-> Array_get(t, a, i - 1)]

\* ------------------------------------------------------------------ state

VARIABLES
    backtrackable_mem,      \* Trail.backtrackable_mem: the bytes of the trailed arena
    non_backtrackable_mem,  \* Trail.non_backtrackable_mem: the bytes of the stable arena
    trail,                  \* Trail.trail: the stack of snapshots, oldest first
    panicked,               \* whether an operation panicked
    handles,                \* the Value, Array and SparseSet handles the builder returned
    op,                     \* the last operation called
    arg,                    \* its argument
    shadow,                 \* what was observed at each new_level still open, oldest first
    before,                 \* <<what the last backtrack has to restore>>, or <<>>
    last_set,               \* what the writes last stored in the stable arena
    levels,                 \* shadow as it was when the current run of backtracks began
    unwound,                \* what was observed after each backtrack of the current run
    calls,                  \* how often new_level and backtrack were called
    pre                     \* what was observed just before the last operation

vars == <<backtrackable_mem, non_backtrackable_mem, trail, panicked, handles,
          op, arg, shadow, before, last_set, levels, unwound, calls, pre>>

\* The trail the program holds.
Cur ==
    [backtrackable_mem |-> backtrackable_mem,
     non_backtrackable_mem |-> non_backtrackable_mem,
     trail |-> trail,
     panicked |-> panicked]

\* The program's trail becomes t.
Becomes(t) ==
    /\ backtrackable_mem' = t.backtrackable_mem
    /\ non_backtrackable_mem' = t.non_backtrackable_mem
    /\ trail' = t.trail
    /\ panicked' = t.panicked

NoCalls == [new_level |-> 0, backtrack |-> 0, on_empty |-> 0]

\* ------------------------------------- values and arrays in the two arenas

\* The values the model stores in an i16 Value and in the elements of a u16 Array.
I16Vals == {-1, 0}
U16Vals == {255, 256}
ValsOf(T) == IF T.signed THEN I16Vals ELSE U16Vals

\* The builder calls of tests::backtrackable_and_non_backtrackable_value and
\* tests::backtrackable_and_non_backtrackable_array, on one builder, with a val of
\* I16Vals and vals of U16Vals as the initial contents.
Built ==
    LET val == 0
        vals == <<255, 256>>
        r1 == Value_new(TrailBuilder_new, "Backtrackable", val, TYPE_i16)
        r2 == Value_new(r1.builder, "NonBacktrackable", val, TYPE_i16)
        r3 == Array_new(r2.builder, "Backtrackable", vals, TYPE_u16)
        r4 == Array_new(r3.builder, "NonBacktrackable", vals, TYPE_u16)
    IN [trail |-> TrailBuilder_finish(r4.builder),
        handles |-> [value |-> [Backtrackable |-> r1.handle, NonBacktrackable |-> r2.handle],
                     array |-> [Backtrackable |-> r3.handle, NonBacktrackable |-> r4.handle]]]

\* What the handles of mode M read on trail t: the value and the array's elements.
Obs(t, M) ==
    [value |-> Value_get(t, handles.value[M]),
     array |-> Array_iter(t, handles.array[M])]

\* What both modes read right after finish().
BuiltObs ==
    [value |-> Value_get(Built.trail, Built.handles.value["Backtrackable"]),
     array |-> Array_iter(Built.trail, Built.handles.array["Backtrackable"])]

TrailedObs == Obs(Cur, "Backtrackable")
StableObs == Obs(Cur, "NonBacktrackable")

InitTrail ==
    /\ backtrackable_mem = Built.trail.backtrackable_mem
    /\ non_backtrackable_mem = Built.trail.non_backtrackable_mem
    /\ trail = Built.trail.trail
    /\ panicked = Built.trail.panicked
    /\ handles = Built.handles
    /\ op = "finish"
    /\ arg = 0
    /\ shadow = <<>>
    /\ before = <<>>
    /\ last_set = BuiltObs
    /\ levels = <<>>
    /\ unwound = <<>>
    /\ calls = NoCalls
    /\ pre = 0

\* A write of the program, t being the trail after it and ls what the writes have
\* now last stored in the stable arena.
Write(t, ls) ==
    /\ Becomes(t)
    /\ op' = "write"
    /\ last_set' = ls
    /\ before' = <<>>
    /\ levels' = <<>>
    /\ unwound' = <<>>
    /\ pre' = 0
    /\ UNCHANGED <<handles, arg, shadow, calls>>

\* last_set after a write of mode M that stores x where slot was.
Stored(M, new) == IF M = "NonBacktrackable" THEN new ELSE last_set

\* value.set(&mut trail, new_val)
ValueSet(M, new_val) ==
    /\ ~panicked
    /\ Write(Value_set(Cur, handles.value[M], new_val),
             Stored(M, [last_set EXCEPT !.value = new_val]))

\* value.update(&mut trail, f), for a closure that does not overflow
ValueUpdate(M, f) ==
    /\ ~panicked
    /\ Apply(f, Value_get(Cur, handles.value[M])) \in I16Vals
    /\ Write(Value_update(Cur, handles.value[M], f),
             Stored(M, [last_set EXCEPT !.value = Apply(f, @)]))

\* array.set(&mut trail, i, new_val)
ArraySet(M, i, new_val) ==
    /\ ~panicked
    /\ Write(Array_set(Cur, handles.array[M], i, new_val),
             Stored(M, [last_set EXCEPT !.array[i + 1] = new_val]))

\* array.update(&mut trail, i, f), for a closure that does not overflow
ArrayUpdate(M, i, f) ==
    /\ ~panicked
    /\ Apply(f, Array_get(Cur, handles.array[M], i)) \in U16Vals
    /\ Write(Array_update(Cur, handles.array[M], i, f),
             Stored(M, [last_set EXCEPT !.array[i + 1] = Apply(f, @)]))

\* array.swap(&mut trail, i, j)
ArraySwap(M, i, j) ==
    /\ ~panicked
    /\ Write(Array_swap(Cur, handles.array[M], i, j),
             Stored(M, [last_set EXCEPT !.array[i + 1] = last_set.array[j + 1],
                                        !.array[j + 1] = last_set.array[i + 1]]))

\* What the trailed handles read on trail t.
ObsTrailed(t) == Obs(t, "Backtrackable")

\* trail.new_level(); shadow keeps what the trailed handles read when it is called.
NewLevel ==
    /\ ~panicked
    /\ Len(trail) < MaxTrail
    /\ Becomes(Trail_new_level(Cur))
    /\ op' = "new_level"
    /\ shadow' = Append(shadow, TrailedObs)
    /\ before' = <<>>
    /\ levels' = <<>>
    /\ unwound' = <<>>
    /\ pre' = 0
    /\ UNCHANGED <<handles, arg, last_set>>

\* trail.backtrack(); before keeps what the new_level it undoes had recorded.
Backtrack ==
    /\ ~panicked
    /\ Becomes(Trail_backtrack(Cur))
    /\ op' = "backtrack"
    /\ shadow' = SubSeq(shadow, 1, Len(shadow) - 1)
    /\ before' = IF shadow = <<>> THEN <<>> ELSE <<shadow[Len(shadow)]>>
    /\ levels' = IF op = "backtrack" THEN levels ELSE shadow
    /\ unwound' = LET u == IF op = "backtrack" THEN unwound ELSE <<>>
                  IN IF shadow = <<>> THEN u
                     ELSE Append(u, ObsTrailed(Trail_backtrack(Cur)))
    /\ pre' = [dirty |-> TrailedObs # ObsTrailed(Trail_backtrack(Cur))]
    /\ UNCHANGED <<handles, arg, last_set>>

Indices == 0..(Array_len(Built.handles.array["Backtrackable"]) - 1)

NextTrail ==
    \/ \E M \in StorageModes, v \in I16Vals : ValueSet(M, v)
    \/ \E M \in StorageModes, f \in Closures : ValueUpdate(M, f)
    \/ \E M \in StorageModes, i \in Indices, v \in U16Vals : ArraySet(M, i, v)
    \/ \E M \in StorageModes, i \in Indices, f \in Closures : ArrayUpdate(M, i, f)
    \/ \E M \in StorageModes, i \in Indices, j \in Indices : ArraySwap(M, i, j)
    \/ NewLevel /\ UNCHANGED calls
    \/ Backtrack /\ UNCHANGED calls

\* The trail with values and arrays in both arenas.
SpecTrail == InitTrail /\ [][NextTrail]_vars

\* trail.new_level(), counted.
CountedNewLevel ==
    /\ calls.new_level < MaxCalls
    /\ NewLevel
    /\ calls' = [calls EXCEPT !.new_level = @ + 1]

\* trail.backtrack(), counted, and counted apart when the stack is empty.
CountedBacktrack ==
    /\ calls.backtrack < MaxCalls
    /\ Backtrack
    /\ calls' = [calls EXCEPT !.backtrack = @ + 1,
                              !.on_empty = IF trail = <<>> THEN @ + 1 ELSE @]

NextDepth ==
    \/ \E M \in StorageModes, v \in I16Vals : ValueSet(M, v)
    \/ CountedNewLevel
    \/ CountedBacktrack

\* The trail with its new_level and backtrack calls counted.
SpecDepth == InitTrail /\ [][NextDepth]_vars

\* ------------------------------------------------------ claims on the trail

\* C1: after new_level(); s; backtrack(), s being any writes with balanced nested
\* new_level/backtrack pairs, every trailed value and array element reads as it did
\* just before that new_level, and every stable one reads as what s last stored.
C1_SnapshotRestore ==
    (op = "backtrack" /\ before # <<>>) =>
        /\ TrailedObs = before[1]
        /\ StableObs = last_set

\* C1 happens: a backtrack undid writes to the trailed arena inside another open
\* level, after writes to the stable arena.
C1_Witness ==
    /\ op = "backtrack"
    /\ before # <<>>
    /\ pre.dirty
    /\ shadow # <<>>
    /\ TrailedObs # BuiltObs
    /\ StableObs # BuiltObs
    /\ StableObs # TrailedObs

\* C2: new_level and backtrack leave the bytes of the stable arena as they were, and
\* new_level leaves the bytes of the trailed arena as they were.
C2_StableFrame ==
    [][/\ op' \in {"new_level", "backtrack"} =>
            non_backtrackable_mem' = non_backtrackable_mem
       /\ op' = "new_level" => backtrackable_mem' = backtrackable_mem]_vars

\* C2 happens: a backtrack restored a trailed arena that differs from the written
\* stable arena.
C2_Witness ==
    /\ op = "backtrack"
    /\ before # <<>>
    /\ pre.dirty
    /\ non_backtrackable_mem # Built.trail.non_backtrackable_mem
    /\ non_backtrackable_mem # backtrackable_mem

\* C3 as stated: after k calls of new_level and m <= k calls of backtrack in any
\* order, trail_len() = k - m.
C3_AnyOrder ==
    calls.backtrack <= calls.new_level =>
        Trail_trail_len(Cur) = calls.new_level - calls.backtrack

\* C3, amended: trail_len() = k - m', m' counting the backtrack calls made on a
\* stack that was not empty; so it is k - m when no backtrack was called on an empty
\* stack.
C3_DepthLaw ==
    Trail_trail_len(Cur) = calls.new_level - (calls.backtrack - calls.on_empty)

\* C3 happens: interleaved calls, none of backtrack on an empty stack.
C3_Witness ==
    /\ calls.new_level >= 2
    /\ calls.backtrack >= 1
    /\ calls.on_empty = 0
    /\ Trail_trail_len(Cur) = calls.new_level - calls.backtrack
    /\ Trail_trail_len(Cur) >= 1
    /\ op = "new_level"

\* C4: trail_len() is 0 after finish(), new_level() adds exactly 1 to it, backtrack()
\* takes exactly 1 from it when it is positive, nothing else changes it, and
\* is_trail_empty() is true exactly when it is 0.
C4_TrailLen ==
    /\ Trail_trail_len(Cur) = 0
    /\ Trail_is_trail_empty(Cur)
    /\ [][/\ op' = "new_level" => Len(trail') = Trail_trail_len(Cur) + 1
          /\ (op' = "backtrack" /\ Trail_trail_len(Cur) > 0) =>
                Len(trail') = Trail_trail_len(Cur) - 1
          /\ (op' = "backtrack" /\ Trail_trail_len(Cur) = 0) => Len(trail') = 0
          /\ op' = "write" => Len(trail') = Trail_trail_len(Cur)
          /\ Trail_is_trail_empty([Cur EXCEPT !.trail = trail']) <=> (Len(trail') = 0)]_vars

\* C4 happens: a new_level on a trailed arena equal to the newest snapshot.
C4_Witness ==
    /\ op = "new_level"
    /\ Trail_trail_len(Cur) = 2
    /\ trail[1] = trail[2]
    /\ ~Trail_is_trail_empty(Cur)

\* C5: backtrack() on an empty stack does not panic and leaves both arenas and the
\* (empty) stack as they were.
C5_EmptyBacktrack ==
    [][(op' = "backtrack" /\ trail = <<>>) =>
            /\ backtrackable_mem' = backtrackable_mem
            /\ non_backtrackable_mem' = non_backtrackable_mem
            /\ trail' = <<>>
            /\ ~panicked']_vars

\* C5 happens: backtrack was called on an empty stack, with both arenas written.
C5_Witness ==
    /\ op = "backtrack"
    /\ before = <<>>
    /\ ~pre.dirty
    /\ trail = <<>>
    /\ TrailedObs # BuiltObs
    /\ StableObs # BuiltObs

\* C6: new_level() having been called at trailed contents S1, ..., Sk, consecutive
\* backtrack() calls make the trailed arena read Sk, S(k-1), ..., S1 in that order,
\* and the stack is empty after the k-th.
C6_Lifo ==
    op = "backtrack" =>
        /\ Len(unwound) <= Len(levels)
        /\ \A j \in 1..Len(unwound) : unwound[j] = levels[Len(levels) + 1 - j]
        /\ unwound # <<>> => TrailedObs = unwound[Len(unwound)]
        /\ Trail_trail_len(Cur) = Len(levels) - Len(unwound)
        /\ Len(unwound) = Len(levels) => Trail_is_trail_empty(Cur)

\* C6 happens: two levels with different contents were unwound to an empty stack.
C6_Witness ==
    /\ op = "backtrack"
    /\ Len(levels) >= 2
    /\ Len(unwound) = Len(levels)
    /\ levels[1] # levels[2]
    /\ unwound[1] = levels[Len(levels)]
    /\ Trail_is_trail_empty(Cur)

\* -------------------------------------------------------------- sparse set

\* 0..len as a sequence: <<0, 1, ..., len - 1>>.
Range(len) == [k \in 1..len |-> k - 1]

\* SparseSet::new_full: the grown builder and the handle, M being where len lives.
SparseSet_new_full(builder, M, len) ==
    LET r1 == Array_new(builder, "NonBacktrackable", Range(len), TYPE_usize)
        r2 == Array_new(r1.builder, "NonBacktrackable", Range(len), TYPE_usize)
        r3 == Value_new(r2.builder, M, len, TYPE_usize)
    IN [builder |-> r3.builder,
        handle |-> [values |-> r1.handle, positions |-> r2.handle, len |-> r3.handle]]

\* SparseSet::len
SparseSet_len(t, s) == Value_get(t, s.len)

\* SparseSet::is_empty
SparseSet_is_empty(t, s) == Value_get(t, s.len) = 0

\* An iter that maps over every index of values.
SparseSet_iter_all(t, s) == Array_iter(t, s.values)

\* SparseSet::iter: the items it yields, in order.
SparseSet_iter(t, s) == [k \in 1..Value_get(t, s.len) |-> Array_get(t, s.values, k - 1)]

\* A contains that reads positions[val] without asking whether val < n.
SparseSet_contains_unchecked(t, s, val) ==
    Array_get(t, s.positions, val) < Value_get(t, s.len)

\* SparseSet::contains
SparseSet_contains(t, s, val) ==
    val < Array_len(s.positions) /\ Array_get(t, s.positions, val) < Value_get(t, s.len)

\* a - b on usize: it panics when it overflows.
checked_sub(a, b) == IF a = PANIC \/ b = PANIC \/ a < b THEN PANIC ELSE a - b

\* A swap that stores each position under the value that already had it.
SparseSet_swap_stale(t, s, i, j) ==
    LET val_i == Array_get(t, s.values, i)
        val_j == Array_get(t, s.values, j)
        t1 == Array_set(t, s.values, i, val_j)
        t2 == Array_set(t1, s.values, j, val_i)
        t3 == Array_set(t2, s.positions, val_i, i)
    IN Array_set(t3, s.positions, val_j, j)

\* SparseSet::swap
SparseSet_swap(t, s, i, j) ==
    LET val_i == Array_get(t, s.values, i)
        val_j == Array_get(t, s.values, j)
        t1 == Array_set(t, s.values, i, val_j)
        t2 == Array_set(t1, s.values, j, val_i)
        t3 == Array_set(t2, s.positions, val_i, j)
    IN Array_set(t3, s.positions, val_j, i)

\* A remove that does not ask whether the value is in the set.
SparseSet_remove_unchecked(t, s, val) ==
    LET position == Array_get(t, s.positions, val)
        new_size == checked_sub(Value_get(t, s.len), 1)
    IN Value_set(SparseSet_swap(t, s, position, new_size), s.len, new_size)

\* A remove that swaps the value into the last slot of the array.
SparseSet_remove_to_end(t, s, val) ==
    IF SparseSet_contains(t, s, val)
    THEN LET position == Array_get(t, s.positions, val)
             new_size == checked_sub(Value_get(t, s.len), 1)
         IN Value_set(SparseSet_swap(t, s, position, Array_len(s.values) - 1),
                      s.len, new_size)
    ELSE t

\* A remove that swaps the value with the one just past the set, when there is one.
SparseSet_remove_past_len(t, s, val) ==
    IF SparseSet_contains(t, s, val)
    THEN LET position == Array_get(t, s.positions, val)
             new_size == checked_sub(Value_get(t, s.len), 1)
             j == IF new_size + 1 < Array_len(s.values) THEN new_size + 1 ELSE new_size
         IN Value_set(SparseSet_swap(t, s, position, j), s.len, new_size)
    ELSE t

\* SparseSet::remove
SparseSet_remove(t, s, val) ==
    IF SparseSet_contains(t, s, val)
    THEN LET position == Array_get(t, s.positions, val)
             new_size == checked_sub(Value_get(t, s.len), 1)
         IN Value_set(SparseSet_swap(t, s, position, new_size), s.len, new_size)
    ELSE t

\* A body that swaps a rejected value with the one at position 0.
FilterStep_swaps_front(t, s, keep, position) ==
    LET val == Array_get(t, s.values, position)
    IN IF val = PANIC THEN [t |-> Unwind(t), val |-> val]
       ELSE IF val \notin keep
       THEN LET new_size == checked_sub(Value_get(t, s.len), 1)
            IN [t |-> Value_set(SparseSet_swap(t, s, position, 0), s.len, new_size),
                val |-> val]
       ELSE [t |-> t, val |-> val]

\* The body of the loop of SparseSet::filter at a position: the trail after it and
\* the value f was called with; keep is the set of values f accepts.
FilterStep(t, s, keep, position) ==
    LET val == Array_get(t, s.values, position)
    IN IF val = PANIC THEN [t |-> Unwind(t), val |-> val]
       ELSE IF val \notin keep
       THEN LET new_size == checked_sub(Value_get(t, s.len), 1)
            IN [t |-> Value_set(SparseSet_swap(t, s, position, new_size), s.len, new_size),
                val |-> val]
       ELSE [t |-> t, val |-> val]

RECURSIVE FilterLoop(_, _, _, _, _)
\* The loop of SparseSet::filter with todo positions left, position todo - 1 next;
\* tested are the values f was called with.
FilterLoop(t, s, keep, todo, tested) ==
    IF todo = 0 \/ t.panicked THEN [t |-> t, tested |-> tested]
    ELSE LET r == FilterStep(t, s, keep, todo - 1)
         IN IF r.val = PANIC THEN [t |-> r.t, tested |-> tested]
            ELSE FilterLoop(r.t, s, keep, todo - 1, Append(tested, r.val))

\* A filter whose loop starts one position below the last.
SparseSet_filter_skips_last(t, s, keep) ==
    FilterLoop(t, s, keep, Value_get(t, s.len) - 1, <<>>).t

\* SparseSet::filter
SparseSet_filter(t, s, keep) == FilterLoop(t, s, keep, Value_get(t, s.len), <<>>).t

RECURSIVE Insert(_, _)
\* x put before the first element of the sorted sequence that is not below it.
Insert(x, sorted) ==
    IF sorted = <<>> THEN <<x>>
    ELSE IF x <= Head(sorted) THEN <<x>> \o sorted
    ELSE <<Head(sorted)>> \o Insert(x, Tail(sorted))

RECURSIVE sort(_)
\* Vec::sort: the elements in ascending order.
sort(vals) == IF vals = <<>> THEN <<>> ELSE Insert(Head(vals), sort(Tail(vals)))

RECURSIVE dedup(_)
\* Vec::dedup: consecutive repeated elements removed.
dedup(vals) ==
    IF Len(vals) <= 1 THEN vals
    ELSE IF vals[1] = vals[2] THEN dedup(Tail(vals))
    ELSE <<vals[1]>> \o dedup(Tail(vals))

RECURSIVE IntersectLoop(_, _, _, _)
\* The loop of SparseSet::intersect over the vals left, and the final len.set.
IntersectLoop(t, s, vals, new_size) ==
    IF vals = <<>> \/ t.panicked THEN Value_set(t, s.len, new_size)
    ELSE IF SparseSet_contains(t, s, Head(vals))
    THEN LET position == Array_get(t, s.positions, Head(vals))
         IN IntersectLoop(SparseSet_swap(t, s, position, new_size), s, Tail(vals),
                          new_size + 1)
    ELSE IntersectLoop(t, s, Tail(vals), new_size)

\* An intersect that sorts its input and keeps the repeated values.
SparseSet_intersect_no_dedup(t, s, vals) == IntersectLoop(t, s, sort(vals), 0)

\* An intersect that takes its input in the order given.
SparseSet_intersect_unsorted(t, s, vals) == IntersectLoop(t, s, dedup(vals), 0)

\* SparseSet::intersect
SparseSet_intersect(t, s, vals) == IntersectLoop(t, s, dedup(sort(vals)), 0)

\* ------------------------------------------------- the sparse set on a trail

\* Under SpecSparse handles is the SparseSet handle.
n == Array_len(handles.values)

\* values[i] and positions[v] as the program's trail has them.
values(i) == Array_get(Cur, handles.values, i)
positions(v) == Array_get(Cur, handles.positions, v)

\* The values v with contains(v), on trail t.
Members(t) == {v \in 0..(MaxN + 1) : SparseSet_contains(t, handles, v)}

\* What the sparse set shows on trail t.
ObsSet(t) ==
    [members |-> Members(t), len |-> SparseSet_len(t, handles)]

\* The builder calls of test::backtrack, for a universe 0..size with len in mode M.
BuiltSet(M, size) ==
    LET r == SparseSet_new_full(TrailBuilder_new, M, size)
    IN [trail |-> TrailBuilder_finish(r.builder), handle |-> r.handle]

InitSparse ==
    \E M \in StorageModes, size \in 0..MaxN :
        /\ backtrackable_mem = BuiltSet(M, size).trail.backtrackable_mem
        /\ non_backtrackable_mem = BuiltSet(M, size).trail.non_backtrackable_mem
        /\ trail = BuiltSet(M, size).trail.trail
        /\ panicked = BuiltSet(M, size).trail.panicked
        /\ handles = BuiltSet(M, size).handle
        /\ op = "finish"
        /\ arg = 0
        /\ shadow = <<>>
        /\ before = <<>>
        /\ last_set = 0
        /\ levels = <<>>
        /\ unwound = <<>>
        /\ calls = NoCalls
        /\ pre = 0

\* An operation name of the sparse set, called with a, t being the trail after it and
\* p what is kept of the state before it.
SetOp(name, a, t, p) ==
    /\ Becomes(t)
    /\ op' = name
    /\ arg' = a
    /\ pre' = p
    /\ before' = <<>>
    /\ UNCHANGED <<handles, shadow, last_set, levels, unwound, calls>>

\* sparse_set.remove(&mut trail, val)
Remove(val) ==
    /\ ~panicked
    /\ SetOp("remove",
             [kind |-> IF val \in Members(Cur) THEN "member"
                       ELSE IF val < n THEN "removed" ELSE "outside",
              last |-> val \in Members(Cur)
                       /\ positions(val) = SparseSet_len(Cur, handles) - 1,
              want |-> Members(Cur) \ {val},
              want_len |-> IF val \in Members(Cur) THEN SparseSet_len(Cur, handles) - 1
                           ELSE SparseSet_len(Cur, handles),
              same |-> SparseSet_remove(Cur, handles, val) = Cur],
             SparseSet_remove(Cur, handles, val), 0)

\* sparse_set.filter(&mut trail, f), f accepting the values of keep
Filter(keep) ==
    /\ ~panicked
    /\ SetOp("filter",
             [want |-> Members(Cur) \cap keep,
              mixed |-> /\ Members(Cur) \cap keep # {}
                        /\ Members(Cur) \ keep # {}
                        /\ SparseSet_len(Cur, handles) < n],
             SparseSet_filter(Cur, handles, keep), 0)

\* Whether a sequence is in ascending order.
Ascending(vals) == \A k \in 1..(Len(vals) - 1) : vals[k] <= vals[k + 1]

\* The values of a sequence.
Elems(vals) == {vals[k] : k \in 1..Len(vals)}

\* The sequences of at most MaxInput values of 0..n, n being outside the universe.
Inputs == UNION {[1..k -> 0..n] : k \in 0..MaxInput}

\* sparse_set.intersect(&mut trail, vals)
Intersect(vals) ==
    /\ ~panicked
    /\ SetOp("intersect",
             [want |-> Members(Cur) \cap Elems(vals),
              mixed |-> /\ ~Ascending(vals)
                        /\ Elems(vals) \ Members(Cur) # {}
                        /\ Members(Cur) \ Elems(vals) # {},
              ordered |-> Ascending(vals) \/ Ascending(SparseSet_iter(Cur, handles))],
             SparseSet_intersect(Cur, handles, vals), 0)

\* trail.new_level() on the trail of the sparse set
SetNewLevel ==
    /\ ~panicked
    /\ Len(trail) < MaxTrail
    /\ Becomes(Trail_new_level(Cur))
    /\ op' = "new_level"
    /\ arg' = 0
    /\ pre' = 0
    /\ shadow' = Append(shadow, ObsSet(Cur))
    /\ before' = <<>>
    /\ UNCHANGED <<handles, last_set, levels, unwound, calls>>

\* trail.backtrack() on the trail of the sparse set
SetBacktrack ==
    /\ ~panicked
    /\ Becomes(Trail_backtrack(Cur))
    /\ op' = "backtrack"
    /\ arg' = 0
    /\ pre' = [dirty |-> ObsSet(Cur) # ObsSet(Trail_backtrack(Cur))]
    /\ shadow' = SubSeq(shadow, 1, Len(shadow) - 1)
    /\ before' = IF shadow = <<>> THEN <<>> ELSE <<shadow[Len(shadow)]>>
    /\ UNCHANGED <<handles, last_set, levels, unwound, calls>>

NextSparse ==
    \/ \E val \in 0..(MaxN + 1) : Remove(val)
    \/ \E keep \in SUBSET (0..(n - 1)) : Filter(keep)
    \/ \E vals \in Inputs : Intersect(vals)
    \/ SetNewLevel
    \/ SetBacktrack

\* A sparse set over 0..n, its len trailed or stable, on a trail.
SpecSparse == InitSparse /\ [][NextSparse]_vars

\* ------------------------------------------------- claims on the sparse set

\* C7: after any remove, filter, intersect, new_level and backtrack calls, values
\* and positions are inverse permutations of 0..n, and contains(v) holds exactly
\* when v < n and positions[v] < len, that is when v is one of values[0..len).
C7_Permutation ==
    /\ ~panicked
    /\ \A v \in 0..(n - 1) :
        /\ values(v) \in 0..(n - 1)
        /\ positions(v) \in 0..(n - 1)
        /\ values(positions(v)) = v
        /\ positions(values(v)) = v
    /\ \A v \in 0..(MaxN + 1) :
        /\ SparseSet_contains(Cur, handles, v) <=>
                (v < n /\ positions(v) < SparseSet_len(Cur, handles))
        /\ SparseSet_contains(Cur, handles, v) <=>
                (\E i \in 0..(SparseSet_len(Cur, handles) - 1) : values(i) = v)

\* C7 happens: a backtrack has raised len again over values that were moved.
C7_Witness ==
    /\ op = "backtrack"
    /\ before # <<>>
    /\ pre.dirty
    /\ \E v \in 0..(n - 1) : values(v) # v
    /\ SparseSet_len(Cur, handles) \in 2..(n - 1)

\* C8: for a sparse set with a trailed len, after new_level(); s; backtrack(), s
\* being remove, filter and intersect calls with balanced nested levels, the set of
\* v with contains(v) and len are what they were before that new_level.
C8_BacktrackRestores ==
    (op = "backtrack" /\ before # <<>> /\ handles.len.M = "Backtrackable") =>
        /\ Members(Cur) = before[1].members
        /\ SparseSet_len(Cur, handles) = before[1].len

\* C8 happens: a backtrack inside another open level brought removed values back,
\* values and positions being left as the removals moved them.
C8_Witness ==
    /\ op = "backtrack"
    /\ before # <<>>
    /\ handles.len.M = "Backtrackable"
    /\ pre.dirty
    /\ shadow # <<>>
    /\ \E v \in before[1].members : values(v) # v
    /\ before[1].len < n

\* C9: remove(v) of a member makes contains(v) false, takes exactly 1 from len and
\* leaves the membership of every other value; remove(v) of a value that is not a
\* member (removed before, or >= n) changes nothing.
C9_Remove ==
    op = "remove" =>
        /\ ~panicked
        /\ Members(Cur) = arg.want
        /\ SparseSet_len(Cur, handles) = arg.want_len
        /\ arg.kind # "member" => arg.same

\* C9 happens: a member that was not in the last slot of the set was removed.
C9_Witness ==
    /\ op = "remove"
    /\ arg.kind = "member"
    /\ ~arg.last
    /\ ~arg.same
    /\ Members(Cur) # {}

\* C10: after intersect(input) the set is its prior contents intersected with the
\* values of input, and len is the size of that intersection, whatever the order of
\* input, its repeated values, values removed before and values >= n.
C10_Intersect ==
    op = "intersect" =>
        /\ ~panicked
        /\ Members(Cur) = arg.want
        /\ SparseSet_len(Cur, handles) = Cardinality(arg.want)

\* C10 happens: an input that is not in ascending order and holds a value that is
\* not a member (removed before, or >= n) kept a member and dropped another.
C10_Witness ==
    /\ op = "intersect"
    /\ arg.mixed
    /\ Members(Cur) # {}
    /\ SparseSet_len(Cur, handles) < n - 1

\* C11: after filter(f) the members are exactly the prior members that f accepts,
\* len is their number, and no value that was not a member has become one.
C11_Filter ==
    op = "filter" =>
        /\ ~panicked
        /\ Members(Cur) = arg.want
        /\ SparseSet_len(Cur, handles) = Cardinality(arg.want)

\* C11 happens: a filter on a set that had lost values before kept some members and
\* dropped others.
C11_Witness ==
    /\ op = "filter"
    /\ arg.mixed
    /\ Members(Cur) # {}
    /\ SparseSet_len(Cur, handles) < n - 1

\* C12: iter yields values[0], ..., values[len - 1] in that order: len items, every
\* member exactly once and no other value, so len is the number of members.
C12_Iter ==
    LET items == SparseSet_iter(Cur, handles)
    IN /\ Len(items) = SparseSet_len(Cur, handles)
       /\ \A k \in 1..Len(items) : items[k] = values(k - 1)
       /\ Elems(items) = Members(Cur)
       /\ Cardinality(Elems(items)) = Len(items)
       /\ SparseSet_len(Cur, handles) = Cardinality(Members(Cur))

\* C12 happens: iter yields the members in an order that is not ascending while
\* other values lie beyond len.
C12_Witness ==
    /\ ~Ascending(SparseSet_iter(Cur, handles))
    /\ Len(SparseSet_iter(Cur, handles)) \in 2..(n - 1)
    /\ op \in {"remove", "filter", "intersect", "backtrack"}

\* ------------------------------------------------------------- linked list

\* A new that links the nodes into one ring, each node before the next.
LinkedListArena_new_one_ring(builder, M, data, T) ==
    LET len == Len(data)
        r1 == Array_new(builder, M, [k \in 1..len |-> (k + len - 2) % len], TYPE_usize)
        r2 == Array_new(r1.builder, M, [k \in 1..len |-> k % len], TYPE_usize)
        r3 == Array_new(r2.builder, M, data, T)
    IN [builder |-> r3.builder,
        handle |-> [prev |-> r1.handle, next |-> r2.handle, data |-> r3.handle]]

\* LinkedListArena::new: the grown builder and the handle of the arena.
LinkedListArena_new(builder, M, data, T) ==
    LET r1 == Array_new(builder, M, Range(Len(data)), TYPE_usize)
        r2 == Array_new(r1.builder, M, Range(Len(data)), TYPE_usize)
        r3 == Array_new(r2.builder, M, data, T)
    IN [builder |-> r3.builder,
        handle |-> [prev |-> r1.handle, next |-> r2.handle, data |-> r3.handle]]

\* LinkedListArena::node: the ith node; its index is PANIC when the assertion
\* fails and no node is returned.
LinkedListArena_node(arena, i) ==
    [prev |-> arena.prev, next |-> arena.next, data |-> arena.data,
     index |-> IF i < Array_len(arena.data) THEN i ELSE PANIC]

\* LinkedListArena::size
LinkedListArena_size(arena) == Array_len(arena.data)

\* The node of the same arena as self with the index i.
NodeAt(self, i) == [self EXCEPT !.index = i]

\* LinkedListNode::data
LinkedListNode_data(t, self) == Array_get(t, self.data, self.index)

\* LinkedListNode::set_data
LinkedListNode_set_data(t, self, new_data) == Array_set(t, self.data, self.index, new_data)

\* LinkedListNode::next
LinkedListNode_next(t, self) == NodeAt(self, Array_get(t, self.next, self.index))

\* LinkedListNode::prev
LinkedListNode_prev(t, self) == NodeAt(self, Array_get(t, self.prev, self.index))

\* LinkedListNode::set_next
LinkedListNode_set_next(t, self, next) == Array_set(t, self.next, self.index, next.index)

\* LinkedListNode::set_prev
LinkedListNode_set_prev(t, self, prev) == Array_set(t, self.prev, self.index, prev.index)

\* The first two statements of unlink, insert_after and insert_before: self's
\* neighbours are linked to each other.
UnlinkFromCurrentList(t, self) ==
    LET t1 == LinkedListNode_set_next(t, LinkedListNode_prev(t, self),
                                      LinkedListNode_next(t, self))
    IN LinkedListNode_set_prev(t1, LinkedListNode_next(t1, self),
                               LinkedListNode_prev(t1, self))

\* An unlink that leaves self's own links as they were.
LinkedListNode_unlink_keeps_links(t, self) == UnlinkFromCurrentList(t, self)

\* LinkedListNode::unlink
LinkedListNode_unlink(t, self) ==
    LET t2 == UnlinkFromCurrentList(t, self)
        t3 == LinkedListNode_set_prev(t2, self, self)
    IN LinkedListNode_set_next(t3, self, self)

\* An insert_after that reads node.next before it takes self out of its list.
LinkedListNode_insert_after_early_read(t, self, node) ==
    LET next == LinkedListNode_next(t, node)
        t2 == UnlinkFromCurrentList(t, self)
        t3 == LinkedListNode_set_next(t2, self, next)
        t4 == LinkedListNode_set_prev(t3, next, self)
        t5 == LinkedListNode_set_next(t4, node, self)
    IN LinkedListNode_set_prev(t5, self, node)

\* LinkedListNode::insert_after
LinkedListNode_insert_after(t, self, node) ==
    LET t2 == UnlinkFromCurrentList(t, self)
        next == LinkedListNode_next(t2, node)
        t3 == LinkedListNode_set_next(t2, self, next)
        t4 == LinkedListNode_set_prev(t3, next, self)
        t5 == LinkedListNode_set_next(t4, node, self)
    IN LinkedListNode_set_prev(t5, self, node)

\* LinkedListNode::insert_before
LinkedListNode_insert_before(t, self, node) ==
    LET t2 == UnlinkFromCurrentList(t, self)
        prev == LinkedListNode_prev(t2, node)
        t3 == LinkedListNode_set_next(t2, prev, self)
        t4 == LinkedListNode_set_prev(t3, self, prev)
        t5 == LinkedListNode_set_next(t4, self, node)
    IN LinkedListNode_set_prev(t5, node, self)

\* ---------------------------------------------- the linked list on a trail

\* Under SpecList handles is the LinkedListArena handle; its node indices.
Nodes == 0..(LinkedListArena_size(handles) - 1)

\* The links on trail t: prev[i] and next[i] of node i at place i + 1.
Links(t) == [prev |-> Array_iter(t, handles.prev), next |-> Array_iter(t, handles.next)]

\* The builder calls of tests::node::get_set_data, for size nodes with the data
\* 10, 11, ... in mode M.
BuiltList(M, size) ==
    LET r == LinkedListArena_new(TrailBuilder_new, M, [k \in 1..size |-> 9 + k], TYPE_u16)
    IN [trail |-> TrailBuilder_finish(r.builder), handle |-> r.handle]

InitList ==
    \E M \in StorageModes, size \in 0..MaxNodes :
        /\ backtrackable_mem = BuiltList(M, size).trail.backtrackable_mem
        /\ non_backtrackable_mem = BuiltList(M, size).trail.non_backtrackable_mem
        /\ trail = BuiltList(M, size).trail.trail
        /\ panicked = BuiltList(M, size).trail.panicked
        /\ handles = BuiltList(M, size).handle
        /\ op = "finish"
        /\ arg = [size |-> size]
        /\ shadow = <<>>
        /\ before = <<>>
        /\ last_set = 0
        /\ levels = <<>>
        /\ unwound = <<>>
        /\ calls = NoCalls
        /\ pre = 0

\* An operation name of node self, called with node, t being the trail after it; pre
\* keeps the links before it.
ListOp(name, self, node, t) ==
    /\ ~panicked
    /\ Becomes(t)
    /\ op' = name
    /\ arg' = [self |-> self, node |-> node]
    /\ pre' = Links(Cur)
    /\ UNCHANGED <<handles, shadow, before, last_set, levels, unwound, calls>>

\* arena.node(i).unlink(&mut trail)
Unlink(i) ==
    ListOp("unlink", i, i, LinkedListNode_unlink(Cur, LinkedListArena_node(handles, i)))

\* arena.node(i).insert_after(&mut trail, arena.node(j))
InsertAfter(i, j) ==
    ListOp("insert_after", i, j,
           LinkedListNode_insert_after(Cur, LinkedListArena_node(handles, i),
                                       LinkedListArena_node(handles, j)))

\* arena.node(i).insert_before(&mut trail, arena.node(j))
InsertBefore(i, j) ==
    ListOp("insert_before", i, j,
           LinkedListNode_insert_before(Cur, LinkedListArena_node(handles, i),
                                        LinkedListArena_node(handles, j)))

NextList ==
    \/ \E i \in Nodes : Unlink(i)
    \/ \E i \in Nodes, j \in Nodes : InsertAfter(i, j)
    \/ \E i \in Nodes, j \in Nodes : InsertBefore(i, j)

\* A linked list arena on a trail, any node the receiver and any node the anchor.
SpecList == InitList /\ [][NextList]_vars

\* The same arena with no node inserted after or before itself.
NextRing ==
    \/ \E i \in Nodes : Unlink(i)
    \/ \E i \in Nodes : \E j \in Nodes \ {i} : InsertAfter(i, j)
    \/ \E i \in Nodes : \E j \in Nodes \ {i} : InsertBefore(i, j)

SpecRing == InitList /\ [][NextRing]_vars

\* ------------------------------------------------ claims on the linked list

\* Whether next is a permutation of the nodes with prev its inverse in the links ls.
IsRing(ls) ==
    \A i \in Nodes :
        /\ ls.next[i + 1] \in Nodes
        /\ ls.prev[i + 1] \in Nodes
        /\ ls.prev[ls.next[i + 1] + 1] = i
        /\ ls.next[ls.prev[i + 1] + 1] = i

\* C13: after any unlink, insert_after and insert_before calls with any nodes as
\* receiver and anchor, prev[next[i]] = i and next[prev[i]] = i for every node i.
C13_RingInvariant == IsRing(Links(Cur))

\* C14: x.insert_after(x) and x.insert_before(x) leave prev and next unchanged, x
\* being a singleton or a member of a larger ring.
C14_SelfInsert ==
    (op \in {"insert_after", "insert_before"} /\ arg.self = arg.node) =>
        /\ ~panicked
        /\ Links(Cur) = pre

\* The links ls with node x taken out of its list and linked to itself.
Spliced(ls, x) ==
    [prev |-> [[ls.prev EXCEPT ![ls.next[x + 1] + 1] = ls.prev[x + 1]] EXCEPT ![x + 1] = x],
     next |-> [[ls.next EXCEPT ![ls.prev[x + 1] + 1] = ls.next[x + 1]] EXCEPT ![x + 1] = x]]

\* C15: after x.unlink(), p and s being prev(x) and next(x) before it, x is linked
\* to itself, next[p] = s and prev[s] = p when they differ from x, every other link
\* is as it was, and nothing has changed when x was linked to itself before.
C15_Unlink ==
    op = "unlink" =>
        LET x == arg.self
            p == pre.prev[x + 1]
            s == pre.next[x + 1]
            ls == Links(Cur)
        IN /\ ~panicked
           /\ ls.prev[x + 1] = x
           /\ ls.next[x + 1] = x
           /\ (p # x /\ s # x) => (ls.next[p + 1] = s /\ ls.prev[s + 1] = p)
           /\ \A i \in Nodes \ {x, p} : ls.next[i + 1] = pre.next[i + 1]
           /\ \A i \in Nodes \ {x, s} : ls.prev[i + 1] = pre.prev[i + 1]
           /\ (p = x /\ s = x) => ls = pre

\* C15 happens: a node with two different neighbours was unlinked.
C15_Witness ==
    /\ op = "unlink"
    /\ IsRing(pre)
    /\ pre.prev[arg.self + 1] # arg.self
    /\ pre.prev[arg.self + 1] # pre.next[arg.self + 1]
    /\ Links(Cur) # pre

\* C16: after x.insert_after(a), x # a, next[a] = x, prev[x] = a, next[x] is the node
\* that followed a once x was taken out of its list, the former neighbours of x are
\* linked to each other and every other link is as it was; x.insert_before(a) is
\* the mirror image.
C16_Insert ==
    (op \in {"insert_after", "insert_before"} /\ arg.self # arg.node) =>
        LET x == arg.self
            a == arg.node
            out == Spliced(pre, x)
            ls == Links(Cur)
        IN /\ ~panicked
           /\ op = "insert_after" =>
                /\ ls.next[a + 1] = x
                /\ ls.prev[x + 1] = a
                /\ ls.next[x + 1] = out.next[a + 1]
                /\ ls.next = [out.next EXCEPT ![a + 1] = x, ![x + 1] = out.next[a + 1]]
                /\ ls.prev = [out.prev EXCEPT ![out.next[a + 1] + 1] = x, ![x + 1] = a]
           /\ op = "insert_before" =>
                /\ ls.prev[a + 1] = x
                /\ ls.next[x + 1] = a
                /\ ls.prev[x + 1] = out.prev[a + 1]
                /\ ls.prev = [out.prev EXCEPT ![a + 1] = x, ![x + 1] = out.prev[a + 1]]
                /\ ls.next = [out.next EXCEPT ![out.prev[a + 1] + 1] = x, ![x + 1] = a]
           /\ IsRing(pre) => IsRing(ls)

\* C16 happens: a node was moved within its ring of three, to the other side of
\* the anchor.
C16_Witness ==
    /\ op \in {"insert_after", "insert_before"}
    /\ arg.self # arg.node
    /\ IsRing(pre)
    /\ pre.next[arg.self + 1] \notin {arg.self, pre.prev[arg.self + 1]}
    /\ Links(Cur) # pre
    /\ IsRing(Links(Cur))

\* ------------------------------------------------------------------ bit set

\* The u64 values 1 and !0.
One == {0}
AllOnes == 0..(BLOCK_SIZE - 1)

\* x << k and x >> k on u64, for a shift amount below 64.
Shl(x, k) == {b + k : b \in x} \cap AllOnes
Shr(x, k) == {b - k : b \in {c \in x : c >= k}}

\* !x on u64.
BitNot(x) == AllOnes \ x

\* u64::count_ones, u64::trailing_zeros and u64::leading_zeros.
count_ones(x) == Cardinality(x)
trailing_zeros(x) ==
    IF x = {} THEN BLOCK_SIZE ELSE CHOOSE b \in x : \A c \in x : b <= c
leading_zeros(x) ==
    IF x = {} THEN BLOCK_SIZE ELSE BLOCK_SIZE - 1 - (CHOOSE b \in x : \A c \in x : b >= c)

\* A constructor without the assertion on len.
BitSet_new_unchecked(builder, M, len, block) ==
    LET max == len - 1
        num_blocks == (max \div BLOCK_SIZE) + 1
        r == Array_new(builder, M, [k \in 1..num_blocks |-> block], TYPE_u64)
    IN [ok |-> TRUE, builder |-> r.builder, handle |-> [blocks |-> r.handle, max |-> max]]

\* BitSet::new_full and BitSet::new_empty: ok is whether assert!(len > 0) held;
\* block is the value every block starts with.
BitSet_new(builder, M, len, block) ==
    LET max == len - 1
        num_blocks == (max \div BLOCK_SIZE) + 1
        r == Array_new(builder, M, [k \in 1..num_blocks |-> block], TYPE_u64)
    IN IF len > 0
       THEN [ok |-> TRUE, builder |-> r.builder,
             handle |-> [blocks |-> r.handle, max |-> max]]
       ELSE [ok |-> FALSE, builder |-> builder, handle |-> PANIC]

\* BitSet::new_full
BitSet_new_full(builder, M, len) == BitSet_new(builder, M, len, BitNot({}))

\* BitSet::new_empty
BitSet_new_empty(builder, M, len) == BitSet_new(builder, M, len, {})

RECURSIVE ClearLoop(_, _, _)
\* The loop of BitSet::clear from block i on.
ClearLoop(t, s, i) ==
    IF i >= Array_len(s.blocks) THEN t
    ELSE ClearLoop(Array_set(t, s.blocks, i, {}), s, i + 1)

\* A clear that zeroes the first block only.
BitSet_clear_first_block(t, s) == Array_set(t, s.blocks, 0, {})

\* BitSet::clear
BitSet_clear(t, s) == ClearLoop(t, s, 0)

\* BitSet::capacity
BitSet_capacity(s) == s.max + 1

\* An insert that does not compare value with max.
BitSet_insert_unchecked(t, s, value) ==
    LET index == value \div BLOCK_SIZE
        block == Array_get(t, s.blocks, index)
    IN IF index < Array_len(s.blocks)
       THEN Array_set(t, s.blocks, index, block \cup Shl(One, value % BLOCK_SIZE))
       ELSE Unwind(t)

\* BitSet::insert
BitSet_insert(t, s, value) ==
    IF value <= s.max
    THEN LET index == value \div BLOCK_SIZE
             block == Array_get(t, s.blocks, index)
         IN Array_set(t, s.blocks, index, block \cup Shl(One, value % BLOCK_SIZE))
    ELSE t

\* A contains that does not compare value with max.
BitSet_contains_unchecked(t, s, value) ==
    LET index == value \div BLOCK_SIZE
    IN IF index >= Array_len(s.blocks) THEN FALSE
       ELSE (Shr(Array_get(t, s.blocks, index), value % BLOCK_SIZE) \cap One) = One

\* BitSet::contains
BitSet_contains(t, s, value) ==
    IF value > s.max THEN FALSE
    ELSE LET index == value \div BLOCK_SIZE
             block == Array_get(t, s.blocks, index)
         IN (Shr(block, value % BLOCK_SIZE) \cap One) = One

\* BitSet::remove
BitSet_remove(t, s, value) ==
    IF value <= s.max
    THEN LET index == value \div BLOCK_SIZE
             block == Array_get(t, s.blocks, index)
         IN Array_set(t, s.blocks, index,
                      block \cap BitNot(Shl(One, value % BLOCK_SIZE)))
    ELSE t

\* The smaller of two u64 values (u64::min).
Min(a, b) == IF a <= b THEN a ELSE b

RECURSIVE MiddleLoop(_, _, _, _, _)
\* The loop of BitSet::count_between over the blocks i .. max_block_index - 1.
MiddleLoop(t, s, i, max_block_index, tot) ==
    IF i >= max_block_index THEN tot
    ELSE MiddleLoop(t, s, i + 1, max_block_index,
                    tot + count_ones(Array_get(t, s.blocks, i)))

\* A count_between that leaves out the blocks between the first and the last.
BitSet_count_between_no_middle(t, s, min, max) ==
    IF min <= max /\ min <= s.max
    THEN LET max_1 == Min(max, s.max)
             min_block_index == min \div BLOCK_SIZE
             max_block_index == max_1 \div BLOCK_SIZE
             min_mask == Shl(BitNot({}), min % BLOCK_SIZE)
             max_mask == Shr(BitNot({}), BLOCK_SIZE - (max_1 % BLOCK_SIZE) - 1)
         IN IF min_block_index = max_block_index
            THEN count_ones(Array_get(t, s.blocks, min_block_index)
                            \cap (min_mask \cap max_mask))
            ELSE count_ones(Array_get(t, s.blocks, min_block_index) \cap min_mask)
                 + count_ones(Array_get(t, s.blocks, max_block_index) \cap max_mask)
    ELSE 0

\* BitSet::count_between
BitSet_count_between(t, s, min, max) ==
    IF min <= max /\ min <= s.max
    THEN LET max_1 == Min(max, s.max)
             min_block_index == min \div BLOCK_SIZE
             max_block_index == max_1 \div BLOCK_SIZE
             min_offset == min % BLOCK_SIZE
             max_offset == max_1 % BLOCK_SIZE
             min_mask == Shl(BitNot({}), min_offset)
             max_mask == Shr(BitNot({}), BLOCK_SIZE - max_offset - 1)
         IN IF min_block_index = max_block_index
            THEN LET mask == min_mask \cap max_mask
                     block == Array_get(t, s.blocks, min_block_index)
                 IN count_ones(block \cap mask)
            ELSE LET min_block == Array_get(t, s.blocks, min_block_index)
                     min_block_count == count_ones(min_block \cap min_mask)
                     max_block == Array_get(t, s.blocks, max_block_index)
                     max_block_count == count_ones(max_block \cap max_mask)
                 IN MiddleLoop(t, s, min_block_index + 1, max_block_index,
                               min_block_count + max_block_count)
    ELSE 0

\* A next_above that gives up at the end of the block of value.
BitSet_next_above_one_block(t, s, value) ==
    IF value > s.max THEN NONE
    ELSE LET to_skip == trailing_zeros(Shr(Array_get(t, s.blocks, value \div BLOCK_SIZE),
                                           value % BLOCK_SIZE))
         IN IF to_skip = BLOCK_SIZE \/ value + to_skip > s.max THEN NONE
            ELSE value + to_skip

RECURSIVE BitSet_next_above_below_max(_, _, _)
\* A next_above that answers None from max on.
BitSet_next_above_below_max(t, s, value) ==
    IF value >= s.max THEN NONE
    ELSE LET block == value \div BLOCK_SIZE
             to_skip == trailing_zeros(Shr(Array_get(t, s.blocks, block),
                                           value % BLOCK_SIZE))
         IN IF to_skip = BLOCK_SIZE
            THEN BitSet_next_above_below_max(t, s, (block + 1) * BLOCK_SIZE)
            ELSE IF value + to_skip >= s.max THEN NONE
            ELSE value + to_skip

RECURSIVE BitSet_next_above(_, _, _)
\* BitSet::next_above
BitSet_next_above(t, s, value) ==
    IF value > s.max THEN NONE
    ELSE LET block == value \div BLOCK_SIZE
             offset == value % BLOCK_SIZE
             to_skip == trailing_zeros(Shr(Array_get(t, s.blocks, block), offset))
         IN IF to_skip = BLOCK_SIZE
            THEN BitSet_next_above(t, s, (block + 1) * BLOCK_SIZE)
            ELSE IF value + to_skip > s.max THEN NONE
            ELSE value + to_skip

RECURSIVE BitSet_next_below_unclamped(_, _, _)
\* A next_below that does not bring value down to max first.
BitSet_next_below_unclamped(t, s, value) ==
    LET block == value \div BLOCK_SIZE
        offset == value % BLOCK_SIZE
        to_skip == leading_zeros(Shl(Array_get(t, s.blocks, block),
                                     BLOCK_SIZE - offset - 1))
    IN IF block >= Array_len(s.blocks) THEN NONE
       ELSE IF to_skip = BLOCK_SIZE
       THEN IF block = 0 THEN NONE
            ELSE BitSet_next_below_unclamped(t, s, block * BLOCK_SIZE - 1)
       ELSE value - to_skip

RECURSIVE BitSet_next_below(_, _, _)
\* BitSet::next_below
BitSet_next_below(t, s, value) ==
    LET value_1 == Min(value, s.max)
        block == value_1 \div BLOCK_SIZE
        offset == value_1 % BLOCK_SIZE
        to_skip == leading_zeros(Shl(Array_get(t, s.blocks, block),
                                     BLOCK_SIZE - offset - 1))
    IN IF to_skip = BLOCK_SIZE
       THEN IF block = 0 THEN NONE
            ELSE BitSet_next_below(t, s, block * BLOCK_SIZE - 1)
       ELSE value_1 - to_skip

\* ------------------------------------------- the arithmetic of the bit set

\* The block index and the shift amount that insert, contains and remove compute
\* for a value that is not above max.
BitSet_index_and_shift(s, value) ==
    [index |-> value \div BLOCK_SIZE, shift |-> value % BLOCK_SIZE]

\* The block indices, the two shift amounts and the difference 64 - max_offset - 1,
\* taken in the integers, that count_between computes once min <= max and
\* min <= self.max hold.
BitSet_count_between_arith(s, min, max) ==
    LET max_1 == Min(max, s.max)
    IN [min_block_index |-> min \div BLOCK_SIZE,
        max_block_index |-> max_1 \div BLOCK_SIZE,
        min_shift |-> min % BLOCK_SIZE,
        max_shift |-> BLOCK_SIZE - (max_1 % BLOCK_SIZE) - 1]

\* A call of next_above that goes on at the first value of its own block.
BitSet_next_above_call_same_block(t, s, value) ==
    IF value > s.max
    THEN [value |-> value, block |-> NONE, shift |-> NONE, to_skip |-> NONE,
          ok |-> TRUE, again |-> NONE, got |-> NONE]
    ELSE LET block == value \div BLOCK_SIZE
             offset == value % BLOCK_SIZE
             safe == block < Array_len(s.blocks) /\ offset \in 0..(BLOCK_SIZE - 1)
             to_skip == IF safe
                        THEN trailing_zeros(Shr(Array_get(t, s.blocks, block), offset))
                        ELSE PANIC
         IN [value |-> value, block |-> block, shift |-> offset, to_skip |-> to_skip,
             ok |-> safe,
             again |-> IF safe /\ to_skip = BLOCK_SIZE THEN block * BLOCK_SIZE ELSE NONE,
             got |-> IF ~safe \/ to_skip = BLOCK_SIZE \/ value + to_skip > s.max THEN NONE
                     ELSE value + to_skip]

\* One call of next_above: the block index and the shift amount it computes, whether
\* both are in range (ok), the value it calls itself with (again, NONE when it
\* returns) and what it returns then (got, NONE for None).
BitSet_next_above_call(t, s, value) ==
    IF value > s.max
    THEN [value |-> value, block |-> NONE, shift |-> NONE, to_skip |-> NONE,
          ok |-> TRUE, again |-> NONE, got |-> NONE]
    ELSE LET block == value \div BLOCK_SIZE
             offset == value % BLOCK_SIZE
             safe == block < Array_len(s.blocks) /\ offset \in 0..(BLOCK_SIZE - 1)
             to_skip == IF safe
                        THEN trailing_zeros(Shr(Array_get(t, s.blocks, block), offset))
                        ELSE PANIC
         IN [value |-> value, block |-> block, shift |-> offset, to_skip |-> to_skip,
             ok |-> safe,
             again |-> IF safe /\ to_skip = BLOCK_SIZE THEN (block + 1) * BLOCK_SIZE ELSE NONE,
             got |-> IF ~safe \/ to_skip = BLOCK_SIZE \/ value + to_skip > s.max THEN NONE
                     ELSE value + to_skip]

RECURSIVE BitSet_next_above_calls(_, _, _, _)
\* The nested calls of next_above(value), outermost first, cut after fuel of them
\* have called themselves.
BitSet_next_above_calls(t, s, value, fuel) ==
    LET call == BitSet_next_above_call(t, s, value)
    IN IF call.again = NONE \/ fuel = 0 THEN <<call>>
       ELSE <<call>> \o BitSet_next_above_calls(t, s, call.again, fuel - 1)

\* A call of next_below that does not bring value down to max first.
BitSet_next_below_call_unclamped(t, s, value) ==
    LET block == value \div BLOCK_SIZE
        offset == value % BLOCK_SIZE
        shift == BLOCK_SIZE - offset - 1
        safe == block < Array_len(s.blocks) /\ shift \in 0..(BLOCK_SIZE - 1)
        to_skip == IF safe THEN leading_zeros(Shl(Array_get(t, s.blocks, block), shift))
                   ELSE PANIC
        down == safe /\ to_skip = BLOCK_SIZE
    IN [value |-> value, block |-> block, shift |-> shift, to_skip |-> to_skip,
        ok |-> safe /\ (to_skip = BLOCK_SIZE \/ to_skip <= value),
        again |-> IF down /\ block # 0 THEN block * BLOCK_SIZE - 1 ELSE NONE,
        got |-> IF ~safe \/ down THEN NONE ELSE value - to_skip]

\* One call of next_below: value is the value brought down to max; ok is whether the
\* block index and the shift amount 64 - offset - 1 are in range and value - to_skip
\* does not go below 0.
BitSet_next_below_call(t, s, value) ==
    LET value_1 == Min(value, s.max)
        block == value_1 \div BLOCK_SIZE
        offset == value_1 % BLOCK_SIZE
        shift == BLOCK_SIZE - offset - 1
        safe == block < Array_len(s.blocks) /\ shift \in 0..(BLOCK_SIZE - 1)
        to_skip == IF safe THEN leading_zeros(Shl(Array_get(t, s.blocks, block), shift))
                   ELSE PANIC
        down == safe /\ to_skip = BLOCK_SIZE
    IN [value |-> value_1, block |-> block, shift |-> shift, to_skip |-> to_skip,
        ok |-> safe /\ (to_skip = BLOCK_SIZE \/ to_skip <= value_1),
        again |-> IF down /\ block # 0 THEN block * BLOCK_SIZE - 1 ELSE NONE,
        got |-> IF ~safe \/ down THEN NONE ELSE value_1 - to_skip]

RECURSIVE BitSet_next_below_calls(_, _, _, _)
\* The nested calls of next_below(value), outermost first, cut after fuel of them
\* have called themselves.
BitSet_next_below_calls(t, s, value, fuel) ==
    LET call == BitSet_next_below_call(t, s, value)
    IN IF call.again = NONE \/ fuel = 0 THEN <<call>>
       ELSE <<call>> \o BitSet_next_below_calls(t, s, call.again, fuel - 1)

\* ---------------------------------------------------- the bit set on a trail

\* The capacities the model builds: one bit, a whole block, a block and one bit,
\* and MaxBlocks blocks with two bits in the last.
Capacities == {1, BLOCK_SIZE, BLOCK_SIZE + 1, BLOCK_SIZE * (MaxBlocks - 1) + 2}

\* The offsets in a block of the values the model calls with: the first and the last.
Offsets == {0, BLOCK_SIZE - 1}

\* The arguments of the calls on bit set s: the values at those offsets, max, and
\* max + 1, which is past the capacity.
Args(s) == {v \in 0..(s.max + 1) : v % BLOCK_SIZE \in Offsets \/ v >= s.max}

\* The builder calls of tests::new, for one bit set of len bits in mode M.
BuiltBits(M, len, full) ==
    LET r == IF full THEN BitSet_new_full(TrailBuilder_new, M, len)
             ELSE BitSet_new_empty(TrailBuilder_new, M, len)
    IN [trail |-> TrailBuilder_finish(r.builder), handle |-> r.handle]

\* Under SpecBits handles is the BitSet handle and shadow the reference set: the
\* values of 0..max put in by new_full and insert and not taken out since.  After
\* the constructor arg keeps the len it was called with.
InitBits ==
    \E M \in StorageModes, len \in Capacities, full \in BOOLEAN :
        /\ backtrackable_mem = BuiltBits(M, len, full).trail.backtrackable_mem
        /\ non_backtrackable_mem = BuiltBits(M, len, full).trail.non_backtrackable_mem
        /\ trail = BuiltBits(M, len, full).trail.trail
        /\ panicked = BuiltBits(M, len, full).trail.panicked
        /\ handles = BuiltBits(M, len, full).handle
        /\ op = IF full THEN "new_full" ELSE "new_empty"
        /\ arg = [len |-> len]
        /\ shadow = IF full THEN 0..(len - 1) ELSE {}
        /\ before = <<>>
        /\ last_set = 0
        /\ levels = <<>>
        /\ unwound = <<>>
        /\ calls = NoCalls
        /\ pre = 0

\* An operation name of the bit set, a being what is kept of the call, t the trail
\* after it and ref the reference set after it.
BitOp(name, a, t, ref) ==
    /\ ~panicked
    /\ Becomes(t)
    /\ op' = name
    /\ arg' = a
    /\ shadow' = ref
    /\ UNCHANGED <<handles, before, last_set, levels, unwound, calls, pre>>

\* bit_set.insert(&mut trail, value)
BitInsert(value) ==
    BitOp("insert",
          [past |-> value > handles.max, same |-> BitSet_insert(Cur, handles, value) = Cur],
          BitSet_insert(Cur, handles, value),
          IF value <= handles.max THEN shadow \cup {value} ELSE shadow)

\* bit_set.remove(&mut trail, value)
BitRemove(value) ==
    BitOp("remove",
          [past |-> value > handles.max, same |-> BitSet_remove(Cur, handles, value) = Cur],
          BitSet_remove(Cur, handles, value),
          shadow \ {value})

\* bit_set.clear(&mut trail): held is how many values the set held before.
BitClear == BitOp("clear", [held |-> Cardinality(shadow)], BitSet_clear(Cur, handles), {})

\* bit_set.count_between(&trail, min, max): got is what it returns and want the
\* number of values of the reference set in min..max.
CountBetween(min, max) ==
    BitOp("count_between",
          [got |-> BitSet_count_between(Cur, handles, min, max),
           want |-> Cardinality({v \in shadow : min <= v /\ v <= max}),
           blocks |-> IF min > max \/ min > handles.max THEN 0
                      ELSE (Min(max, handles.max) \div BLOCK_SIZE) - (min \div BLOCK_SIZE) + 1,
           whole |-> min = 0 /\ max = handles.max],
          Cur, shadow)

\* bit_set.next_above(&trail, value): got is what it returns and want the smallest
\* value of the reference set that is not below value, NONE if there is none.
NextAbove(value) ==
    BitOp("next_above",
          [got |-> BitSet_next_above(Cur, handles, value),
           want |-> IF \E w \in shadow : w >= value
                    THEN CHOOSE w \in shadow : w >= value /\ \A u \in shadow : u >= value => w <= u
                    ELSE NONE,
           k |-> value - handles.max],
          Cur, shadow)

\* bit_set.next_below(&trail, value): got is what it returns and want the largest
\* value of the reference set that is not above value, NONE if there is none.
NextBelow(value) ==
    BitOp("next_below",
          [got |-> BitSet_next_below(Cur, handles, value),
           want |-> IF \E w \in shadow : w <= value
                    THEN CHOOSE w \in shadow : w <= value /\ \A u \in shadow : u <= value => u <= w
                    ELSE NONE,
           k |-> value - handles.max],
          Cur, shadow)

NextBits ==
    \/ \E value \in Args(handles) : BitInsert(value)
    \/ \E value \in Args(handles) : BitRemove(value)
    \/ BitClear
    \/ \E min \in Args(handles), max \in Args(handles) : CountBetween(min, max)
    \/ \E value \in Args(handles) : NextAbove(value)
    \/ \E value \in Args(handles) : NextBelow(value)

\* A bit set, created empty or full, on a trail.
SpecBits == InitBits /\ [][NextBits]_vars

\* --------------------------------------------------- claims on the bit set

\* The values v of 0..max with contains(v), on trail t.
BitMembers(t) == {v \in 0..handles.max : BitSet_contains(t, handles, v)}

\* Bit v % 64 of block v / 64 as the bytes of the arena hold it on trail t.
RepBit(t, v) ==
    LET bytes == memory(t, handles.blocks.M)
        at == handles.blocks.pointer.offset + LENGTH_u64 * (v \div BLOCK_SIZE)
              + ((v % BLOCK_SIZE) \div 8)
    IN (bytes[at + 1] \div Pow2(v % 8)) % 2 = 1

\* C17: after any insert, remove and clear calls, contains(v) for v <= max is bit
\* v % 64 of block v / 64 and is membership in the reference set updated by the same
\* calls; contains(v) is false for v > max, and insert and remove with v > max
\* change nothing.
C17_IndexEquivalence ==
    /\ ~panicked
    /\ LET members == BitMembers(Cur)
       IN /\ members = shadow
          /\ \A v \in 0..handles.max : v \in members <=> RepBit(Cur, v)
    /\ \A v \in {handles.max + 1, handles.max + BLOCK_SIZE, 2 * BLOCK_SIZE * MaxBlocks} :
        ~BitSet_contains(Cur, handles, v)
    /\ (op \in {"insert", "remove"} /\ arg.past) => arg.same

\* C17 happens: a value past max was inserted into a set that holds values of two
\* blocks but not all values.
C17_Witness ==
    /\ op = "insert"
    /\ arg.past
    /\ \E v \in shadow : \E w \in shadow : v \div BLOCK_SIZE # w \div BLOCK_SIZE
    /\ \E v \in 0..handles.max : v \notin shadow

\* C18: count_between(min, max) is the number of v with min <= v <= max, v <= self.max
\* and contains(v), so 0 when min > max or min > self.max, in one block and across
\* blocks, for sets created empty or full.
C18_CountBetween ==
    op = "count_between" =>
        /\ BitMembers(Cur) = shadow
        /\ arg.got = arg.want
        /\ arg.blocks = 0 => arg.got = 0
        /\ arg.whole => arg.got = Cardinality(BitMembers(Cur))

\* C18 happens: a count over three blocks or more of a set that holds some values
\* and not others.
C18_Witness ==
    /\ op = "count_between"
    /\ arg.blocks >= 3
    /\ arg.got \in 2..(handles.max - 1)
    /\ arg.got < Cardinality(shadow)
    /\ \E v \in 0..handles.max : v \notin shadow

\* C19: next_above(v) is the smallest w >= v with contains(w), and None when there
\* is none, for sets created empty or full.
C19_NextAbove ==
    op = "next_above" =>
        LET value == handles.max + arg.k
        IN /\ arg.got = arg.want
           /\ arg.got # NONE =>
                /\ BitSet_contains(Cur, handles, arg.got)
                /\ arg.got >= value
                /\ \A w \in value..(arg.got - 1) : ~BitSet_contains(Cur, handles, w)
           /\ arg.got = NONE =>
                \A w \in value..handles.max : ~BitSet_contains(Cur, handles, w)

\* C19 happens: next_above found a value in a later block than the one it was
\* called with.
C19_Witness ==
    /\ op = "next_above"
    /\ arg.got # NONE
    /\ arg.got \div BLOCK_SIZE > (handles.max + arg.k) \div BLOCK_SIZE

\* C20 as the specification has it: next_above(max + k) is None for every k >= 0.
C20_NoneFromMax ==
    (op = "next_above" /\ arg.k >= 0) => arg.got = NONE

\* C20: next_above(max + k) is None for every k >= 1, and next_above(max) is
\* Some(max) when contains(max) and None otherwise.
C20_NonePastMax ==
    op = "next_above" =>
        /\ arg.k >= 1 => arg.got = NONE
        /\ arg.k = 0 =>
            arg.got = (IF BitSet_contains(Cur, handles, handles.max) THEN handles.max ELSE NONE)

\* C20 happens: next_above was called with max + 1 on a set that holds max.
C20_Witness ==
    /\ op = "next_above"
    /\ arg.k = 1
    /\ BitSet_contains(Cur, handles, handles.max)
    /\ handles.max >= BLOCK_SIZE


\* C21: next_below(v) is the largest w <= min(v, self.max) with contains(w), and None
\* when there is none, so None for every v on a set that holds nothing, for sets
\* created empty or full.
C21_NextBelow ==
    op = "next_below" =>
        LET value == Min(handles.max + arg.k, handles.max)
        IN /\ arg.got = arg.want
           /\ arg.got # NONE =>
                /\ BitSet_contains(Cur, handles, arg.got)
                /\ arg.got <= value
                /\ \A w \in (arg.got + 1)..value : ~BitSet_contains(Cur, handles, w)
           /\ arg.got = NONE =>
                \A w \in 0..value : ~BitSet_contains(Cur, handles, w)
           /\ BitMembers(Cur) = {} => arg.got = NONE

\* C21 happens: next_below, called with a value past max on a set created full, found
\* a value in an earlier block than the block of max.
C21_Witness ==
    /\ op = "next_below"
    /\ arg.k = 1
    /\ arg.got # NONE
    /\ arg.got \div BLOCK_SIZE < handles.max \div BLOCK_SIZE
    /\ handles.max \notin shadow


\* ------------------------------------------ pointers on one arena (mem.rs)

\* The builder calls of tests::pointer::get_set_update and
\* tests::array_pointer::get_set_update on one MemoryBuilder: an i16 pointer, a u16
\* array pointer behind it and a second i16 pointer behind that.
BuiltMem(val, vals, val_2) ==
    LET r1 == Pointer_new(MemoryBuilder_new, val, TYPE_i16)
        r2 == ArrayPointer_new(r1.builder, vals, TYPE_u16)
        r3 == Pointer_new(r2.builder, val_2, TYPE_i16)
    IN [bytes |-> MemoryBuilder_finish(r3.builder),
        handles |-> [pointer |-> <<r1.pointer, r3.pointer>>, array |-> r2.pointer]]

\* Under SpecMem backtrackable_mem holds the bytes of the one Memory, handles the two
\* pointers and the array pointer, shadow the value last written through each
\* handle and last_set the call that wrote each pointer last.
InitMem ==
    \E val \in I16Vals, val_2 \in I16Vals, len \in 0..MaxLen :
        \E vals \in [1..len -> U16Vals] :
            /\ backtrackable_mem = BuiltMem(val, vals, val_2).bytes
            /\ non_backtrackable_mem = <<>>
            /\ trail = <<>>
            /\ panicked = FALSE
            /\ handles = BuiltMem(val, vals, val_2).handles
            /\ op = "finish"
            /\ arg = 0
            /\ shadow = [pointer |-> <<val, val_2>>, array |-> vals]
            /\ before = <<>>
            /\ last_set = <<"new", "new">>
            /\ levels = <<>>
            /\ unwound = <<>>
            /\ calls = NoCalls
            /\ pre = <<>>

\* A call name on the arena, a being what is kept of the call, r.memory the arena
\* after it, r.ok whether it returned, sh the values last written after it and ls
\* the calls that wrote the pointers last; pre keeps the arena before the call.
MemOp(name, a, r, sh, ls) ==
    /\ ~panicked
    /\ backtrackable_mem' = r.memory
    /\ panicked' = ~r.ok
    /\ op' = name
    /\ arg' = a
    /\ shadow' = IF r.ok THEN sh ELSE shadow
    /\ last_set' = IF r.ok THEN ls ELSE last_set
    /\ pre' = backtrackable_mem
    /\ UNCHANGED <<non_backtrackable_mem, trail, handles, before, levels, unwound, calls>>

\* A call that returned and left the arena as it was.
Read == [ok |-> TRUE, memory |-> backtrackable_mem]

\* pointer.get(&memory), for the kth pointer
PointerGet(k) ==
    MemOp("Pointer::get",
          [slot |-> k, got |-> Pointer_get(backtrackable_mem, handles.pointer[k])],
          Read, shadow, last_set)

\* pointer.set(&mut memory, val)
PointerSet(k, val) ==
    MemOp("Pointer::set", [slot |-> k, val |-> val],
          [ok |-> TRUE, memory |-> Pointer_set(backtrackable_mem, handles.pointer[k], val)],
          [shadow EXCEPT !.pointer[k] = val],
          [last_set EXCEPT ![k] = "set"])

\* pointer.update(&mut memory, f), for a closure that panics or does not overflow
PointerUpdate(k, f) ==
    /\ Apply(f, Pointer_get(backtrackable_mem, handles.pointer[k])) \in I16Vals \cup {PANIC}
    /\ MemOp("Pointer::update",
             [slot |-> k, f |-> f, was |-> Pointer_get(backtrackable_mem, handles.pointer[k])],
             Pointer_update(backtrackable_mem, handles.pointer[k], f),
             [shadow EXCEPT !.pointer[k] = Apply(f, @)],
             [last_set EXCEPT ![k] = "update"])

\* array.get(&memory, i)
ArrayPointerGet(i) ==
    MemOp("ArrayPointer::get",
          [i |-> i, got |-> ArrayPointer_get(backtrackable_mem, handles.array, i)],
          [Read EXCEPT !.ok = ArrayPointer_get(backtrackable_mem, handles.array, i) # PANIC],
          shadow, last_set)

\* array.set(&mut memory, i, val)
ArrayPointerSet(i, val) ==
    MemOp("ArrayPointer::set", [i |-> i, val |-> val],
          ArrayPointer_set(backtrackable_mem, handles.array, i, val),
          [shadow EXCEPT !.array[i + 1] = val], last_set)

\* array.update(&mut memory, i, f), for a closure that panics or does not overflow
ArrayPointerUpdate(i, f) ==
    /\ ApplyTo(f, ArrayPointer_get(backtrackable_mem, handles.array, i)) \in U16Vals \cup {PANIC}
    /\ MemOp("ArrayPointer::update",
             [i |-> i, f |-> f, was |-> ArrayPointer_get(backtrackable_mem, handles.array, i)],
             ArrayPointer_update(backtrackable_mem, handles.array, i, f),
             [shadow EXCEPT !.array[i + 1] = Apply(f, @)], last_set)

\* array.swap(&mut memory, i, j)
ArrayPointerSwap(i, j) ==
    MemOp("ArrayPointer::swap", [i |-> i, j |-> j],
          ArrayPointer_swap(backtrackable_mem, handles.array, i, j),
          [shadow EXCEPT !.array[i + 1] = shadow.array[j + 1],
                         !.array[j + 1] = shadow.array[i + 1]],
          last_set)

\* The indices the model calls the array pointer with: those in bounds and len,
\* the first that is out of bounds.
MemIndices == 0..ArrayPointer_len(handles.array)

NextMem ==
    \/ \E k \in 1..2 : PointerGet(k)
    \/ \E k \in 1..2, val \in I16Vals : PointerSet(k, val)
    \/ \E k \in 1..2, f \in AllClosures : PointerUpdate(k, f)
    \/ \E i \in MemIndices : ArrayPointerGet(i)
    \/ \E i \in MemIndices, val \in U16Vals : ArrayPointerSet(i, val)
    \/ \E i \in MemIndices, f \in AllClosures : ArrayPointerUpdate(i, f)
    \/ \E i \in MemIndices, j \in MemIndices : ArrayPointerSwap(i, j)

\* Two pointers and an array pointer on one arena.
SpecMem == InitMem /\ [][NextMem]_vars

\* ---------------------------------------------------- claims on the pointers

\* C22: after any new, set, update and get calls on one arena, get on a pointer
\* returns the value last written to that pointer: the initial value of new, the
\* argument of the last set, or f of the value before the last update.
C22_RoundTrip ==
    /\ \A k \in 1..2 : Pointer_get(backtrackable_mem, handles.pointer[k]) = shadow.pointer[k]
    /\ op = "Pointer::get" => arg.got = shadow.pointer[arg.slot]

\* C22 happens: get was called on a pointer last written by update while the other
\* pointer, last written by set, holds another value.
C22_Witness ==
    /\ op = "Pointer::get"
    /\ last_set[arg.slot] = "update"
    /\ last_set[3 - arg.slot] = "set"
    /\ shadow.pointer[1] # shadow.pointer[2]


\* C23: Pointer::update(f) and ArrayPointer::update(i, f) leave the arena as
\* set(f(get())) leaves it, f being applied to the value the slot held; when f
\* panics the call does not return, no byte was written and the slot holds the
\* value it held.
C23_Update ==
    /\ op = "Pointer::update" =>
        LET p == handles.pointer[arg.slot]
        IN /\ arg.was = Pointer_get(pre, p)
           /\ IF arg.f = "abort"
              THEN /\ panicked
                   /\ backtrackable_mem = pre
                   /\ Pointer_get(backtrackable_mem, p) = arg.was
              ELSE /\ ~panicked
                   /\ backtrackable_mem = Pointer_set(pre, p, Apply(arg.f, arg.was))
                   /\ Pointer_get(backtrackable_mem, p) = Apply(arg.f, arg.was)
    /\ (op = "ArrayPointer::update" /\ InBounds(handles.array, arg.i)) =>
        LET a == handles.array
        IN /\ arg.was = ArrayPointer_get(pre, a, arg.i)
           /\ IF arg.f = "abort"
              THEN /\ panicked
                   /\ backtrackable_mem = pre
                   /\ ArrayPointer_get(backtrackable_mem, a, arg.i) = arg.was
              ELSE /\ ~panicked
                   /\ backtrackable_mem
                        = ArrayPointer_set(pre, a, arg.i, Apply(arg.f, arg.was)).memory
                   /\ ArrayPointer_get(backtrackable_mem, a, arg.i) = Apply(arg.f, arg.was)

\* C23 happens: update was called with a closure that panics on a slot that held
\* a value other than 0.
C23_Witness ==
    /\ op = "Pointer::update"
    /\ arg.f = "abort"
    /\ arg.was # 0
    /\ panicked

\* C25: after swap(i, j) with both indices in bounds element i is the old element
\* j and element j the old element i, every other element and every byte outside
\* the array is as it was, and with i = j the arena is as it was.
C25_Swap ==
    (op = "ArrayPointer::swap" /\ InBounds(handles.array, arg.i)
        /\ InBounds(handles.array, arg.j)) =>
        LET a == handles.array
            UpTo == a.offset
            From == a.offset + a.len * a.T.LENGTH
        IN /\ ~panicked
           /\ ArrayPointer_get(backtrackable_mem, a, arg.i) = ArrayPointer_get(pre, a, arg.j)
           /\ ArrayPointer_get(backtrackable_mem, a, arg.j) = ArrayPointer_get(pre, a, arg.i)
           /\ \A k \in 0..(a.len - 1) : k \notin {arg.i, arg.j} =>
                ArrayPointer_get(backtrackable_mem, a, k) = ArrayPointer_get(pre, a, k)
           /\ Len(backtrackable_mem) = Len(pre)
           /\ SubSeq(backtrackable_mem, 1, UpTo) = SubSeq(pre, 1, UpTo)
           /\ SubSeq(backtrackable_mem, From + 1, Len(pre)) = SubSeq(pre, From + 1, Len(pre))
           /\ arg.i = arg.j => backtrackable_mem = pre
           /\ [k \in 1..a.len |-> ArrayPointer_get(backtrackable_mem, a, k - 1)] = shadow.array

\* C25 happens: two elements that differ were swapped in an array of three.
C25_Witness ==
    /\ op = "ArrayPointer::swap"
    /\ ~panicked
    /\ arg.i # arg.j
    /\ handles.array.len >= 3
    /\ ArrayPointer_get(pre, handles.array, arg.i) # ArrayPointer_get(pre, handles.array, arg.j)


\* ----------------------------------------------------------- the byte codec

\* A few values of an integer type of length bytes held as its one bits: every
\* choice of its lowest bit, the highest bit of its first byte, the lowest bit of
\* its second byte and its highest bit.
Patterns(length) == SUBSET {0, 7, 8, 8 * length - 1}

\* The types of impl_bytes_primitive!, each with the values the model writes.
\* Types of four bytes and more are held as their one bits, as are the floats;
\* bool is held as the byte it is stored as and char as its scalar value.
Primitives ==
    [i8    |-> [T |-> [LENGTH |-> 1, signed |-> TRUE, bits |-> FALSE],
                vals |-> {-128, -1, 0, 127}],
     i16   |-> [T |-> TYPE_i16, vals |-> {-32768, -1, 0, 32767}],
     i32   |-> [T |-> [LENGTH |-> 4, signed |-> TRUE, bits |-> TRUE], vals |-> Patterns(4)],
     i64   |-> [T |-> [LENGTH |-> 8, signed |-> TRUE, bits |-> TRUE], vals |-> Patterns(8)],
     i128  |-> [T |-> [LENGTH |-> 16, signed |-> TRUE, bits |-> TRUE], vals |-> Patterns(16)],
     isize |-> [T |-> [LENGTH |-> 8, signed |-> TRUE, bits |-> TRUE], vals |-> Patterns(8)],
     u8    |-> [T |-> [LENGTH |-> 1, signed |-> FALSE, bits |-> FALSE],
                vals |-> {0, 1, 128, 255}],
     u16   |-> [T |-> TYPE_u16, vals |-> {0, 255, 256, 65535}],
     u32   |-> [T |-> [LENGTH |-> 4, signed |-> FALSE, bits |-> TRUE], vals |-> Patterns(4)],
     u64   |-> [T |-> TYPE_u64, vals |-> Patterns(8)],
     u128  |-> [T |-> [LENGTH |-> 16, signed |-> FALSE, bits |-> TRUE], vals |-> Patterns(16)],
     usize |-> [T |-> TYPE_usize, vals |-> {0, 255, 256, 16777216}],
     f32   |-> [T |-> [LENGTH |-> 4, signed |-> FALSE, bits |-> TRUE], vals |-> Patterns(4)],
     f64   |-> [T |-> [LENGTH |-> 8, signed |-> FALSE, bits |-> TRUE], vals |-> Patterns(8)],
     char  |-> [T |-> [LENGTH |-> 4, signed |-> FALSE, bits |-> FALSE],
                vals |-> {0, 97, 55295, 1114111}],
     bool  |-> [T |-> [LENGTH |-> 1, signed |-> FALSE, bits |-> FALSE], vals |-> {0, 1}],
     unit  |-> [T |-> [LENGTH |-> 0, signed |-> FALSE, bits |-> FALSE], vals |-> {0}]]

\* The layouts a build may give Foo: sixteen bytes, a at an offset its alignment
\* allows and b before or behind it.
FooLayouts ==
    {[LENGTH |-> 16, a |-> 0, b |-> 8], [LENGTH |-> 16, a |-> 8, b |-> 0],
     [LENGTH |-> 16, a |-> 0, b |-> 13]}

\* The values of Foo the model writes, that of tests/derive.rs among them.
FooVals == {[a |-> x, b |-> y] : x \in {{}, {0, 7, 63}}, y \in {<<1, 5, 3>>, <<0, 255, 0>>}}

\* What the padding bytes of a Foo may read as.
FooPads == {Zeros(16), [k \in 1..16 |-> 255], [k \in 1..16 |-> k]}

\* The types under test, each with its name and its layout, which for a primitive
\* type is its length.
CodecTypes ==
    {[name |-> T, layout |-> [LENGTH |-> Primitives[T].T.LENGTH, a |-> 0, b |-> 0]] :
        T \in DOMAIN Primitives}
    \cup {[name |-> "Foo", layout |-> l] : l \in FooLayouts}

\* Under SpecCodec backtrackable_mem is the byte span of the test, handles the
\* type under test and shadow the value last written to the span, <<>> before
\* the first write.
InitCodec ==
    \E T \in CodecTypes :
        /\ backtrackable_mem = Zeros(T.layout.LENGTH)
        /\ non_backtrackable_mem = <<>>
        /\ trail = <<>>
        /\ panicked = FALSE
        /\ handles = T
        /\ op = "new"
        /\ arg = 0
        /\ shadow = <<>>
        /\ before = <<>>
        /\ last_set = 0
        /\ levels = <<>>
        /\ unwound = <<>>
        /\ calls = NoCalls
        /\ pre = 0

\* A call name of the codec: the span after it, what it returned and the value
\* last written.
CodecOp(name, span, got, written) ==
    /\ backtrackable_mem' = span
    /\ op' = name
    /\ arg' = got
    /\ shadow' = written
    /\ UNCHANGED <<non_backtrackable_mem, trail, panicked, handles, before, last_set,
                   levels, unwound, calls, pre>>

\* val.write_bytes(&mut bytes), for a primitive type
WriteBytes(val) ==
    CodecOp("write_bytes", write_bytes(val, Primitives[handles.name].T), 0, <<val>>)

\* <T as Bytes>::read_bytes(&bytes), for a primitive type, after a write
ReadBytes ==
    /\ handles.name \in DOMAIN Primitives
    /\ shadow # <<>>
    /\ CodecOp("read_bytes", backtrackable_mem,
               <<read_bytes(backtrackable_mem, Primitives[handles.name].T)>>, shadow)

\* foo.write_bytes(&mut bytes)
FooWriteBytes(val, pad) ==
    /\ handles.name = "Foo"
    /\ CodecOp("write_bytes", Foo_write_bytes(val, handles.layout, pad), 0, <<val>>)

\* Foo::read_bytes(&bytes), after a write
FooReadBytes ==
    /\ handles.name = "Foo"
    /\ shadow # <<>>
    /\ CodecOp("read_bytes", backtrackable_mem,
               <<Foo_read_bytes(backtrackable_mem, handles.layout)>>, shadow)

NextCodec ==
    \/ /\ handles.name \in DOMAIN Primitives
       /\ \E val \in Primitives[handles.name].vals : WriteBytes(val)
    \/ ReadBytes
    \/ \E val \in FooVals, pad \in FooPads : FooWriteBytes(val, pad)
    \/ FooReadBytes

\* One span of LENGTH bytes written and read through the codec of one type.
SpecCodec == InitCodec /\ [][NextCodec]_vars

\* C26: for every primitive type and for the derived struct, reading a span of
\* LENGTH bytes gives the value last written to it, and the span written has
\* LENGTH bytes.
C26_CodecRoundTrip ==
    /\ op = "read_bytes" => arg = shadow
    /\ Len(backtrackable_mem) = handles.layout.LENGTH

\* C26 happens: a value was read back from a span in which the byte that holds its
\* sign is set, or a Foo from a span whose padding is not zero.
C26_Witness ==
    /\ op = "read_bytes"
    /\ arg = shadow
    /\ \/ handles.name \in {"i8", "i16"} /\ arg[1] < 0
       \/ handles.name = "Foo" /\ backtrackable_mem[12] = 255


\* ------------------------------------------- claims on the two arenas of a trail

\* A write through the Value or the Array of mode M.
WriteThrough(M) ==
    \/ \E v \in I16Vals : ValueSet(M, v)
    \/ \E f \in Closures : ValueUpdate(M, f)
    \/ \E i \in Indices, v \in U16Vals : ArraySet(M, i, v)
    \/ \E i \in Indices, f \in Closures : ArrayUpdate(M, i, f)
    \/ \E i \in Indices, j \in Indices : ArraySwap(M, i, j)

\* What the pointers of the handles of mode M read in the arena bytes.
ReadIn(bytes, M) ==
    [value |-> Pointer_get(bytes, handles.value[M].pointer),
     array |-> [i \in 1..handles.array[M].pointer.len |->
                    ArrayPointer_get(bytes, handles.array[M].pointer, i - 1)]]

\* C27: a Value or Array tagged Backtrackable reads the trailed arena and a write
\* through it changes no byte of the stable arena; one tagged NonBacktrackable
\* reads the stable arena and a write through it changes no byte of the trailed
\* arena; no write changes the snapshot stack.
C27_Routing ==
    /\ [](/\ Obs(Cur, "Backtrackable") = ReadIn(backtrackable_mem, "Backtrackable")
          /\ Obs(Cur, "NonBacktrackable") = ReadIn(non_backtrackable_mem, "NonBacktrackable"))
    /\ [][/\ WriteThrough("Backtrackable") =>
                /\ non_backtrackable_mem' = non_backtrackable_mem
                /\ trail' = trail
          /\ WriteThrough("NonBacktrackable") =>
                /\ backtrackable_mem' = backtrackable_mem
                /\ trail' = trail]_vars

\* C27 happens: a write, with a snapshot on the stack, after which the handles of
\* the two modes, which have the same offsets, read different values and elements.
C27_Witness ==
    /\ op = "write"
    /\ trail # <<>>
    /\ TrailedObs.value # StableObs.value
    /\ TrailedObs.array # StableObs.array
    /\ handles.value["Backtrackable"].pointer = handles.value["NonBacktrackable"].pointer

\* C28: after finish() the trailed arena and the stable arena keep the byte length
\* they were built with, and every snapshot on the stack has the byte length of the
\* trailed arena.
C28_Lengths ==
    /\ Len(backtrackable_mem) = Len(Built.trail.backtrackable_mem)
    /\ Len(non_backtrackable_mem) = Len(Built.trail.non_backtrackable_mem)
    /\ \A k \in 1..Len(trail) : Len(trail[k]) = Len(backtrackable_mem)

\* C28 happens: two snapshots are on the stack and the last byte of the trailed
\* arena was written since the newer was taken.
C28_Witness ==
    /\ Len(trail) >= 2
    /\ Len(backtrackable_mem) > 0
    /\ trail[Len(trail)][Len(backtrackable_mem)] # backtrackable_mem[Len(backtrackable_mem)]


\* ------------------------------------------------ indices in and out of bounds

\* Under SpecAbort handles is the handle of a linked list arena, as under SpecList;
\* the calls are made on its data array and on the arena, with every index in
\* bounds and the first two that are not.
AnyIndex == 0..(LinkedListArena_size(handles) + 1)

\* Whether index i is in bounds of the data array.
Inside(i) == i < Array_len(handles.data)

\* A call name with the indices idx, t being the trail after it; arg keeps
\* whether an index was out of bounds and pre the trail before the call.
IndexOp(name, idx, t) ==
    /\ ~panicked
    /\ Becomes(t)
    /\ op' = name
    /\ arg' = [oob |-> \E i \in idx : ~Inside(i), one |-> \E i \in idx : Inside(i)]
    /\ pre' = Cur
    /\ UNCHANGED <<handles, shadow, before, last_set, levels, unwound, calls>>

\* arena.node(i)
Node(i) ==
    IndexOp("node", {i},
            IF LinkedListArena_node(handles, i).index = PANIC THEN Unwind(Cur) ELSE Cur)

\* data.get(&trail, i)
DataGet(i) ==
    IndexOp("get", {i}, IF Array_get(Cur, handles.data, i) = PANIC THEN Unwind(Cur) ELSE Cur)

\* data.set(&mut trail, i, new_val)
DataSet(i, new_val) == IndexOp("set", {i}, Array_set(Cur, handles.data, i, new_val))

\* data.update(&mut trail, i, f), for a closure that does not overflow
DataUpdate(i, f) ==
    /\ Inside(i) => Apply(f, Array_get(Cur, handles.data, i)) \in U16Vals
    /\ IndexOp("update", {i}, Array_update(Cur, handles.data, i, f))

\* data.swap(&mut trail, i, j)
DataSwap(i, j) == IndexOp("swap", {i, j}, Array_swap(Cur, handles.data, i, j))

NextAbort ==
    \/ \E i \in AnyIndex : Node(i)
    \/ \E i \in AnyIndex : DataGet(i)
    \/ \E i \in AnyIndex, new_val \in U16Vals : DataSet(i, new_val)
    \/ \E i \in AnyIndex, f \in Closures : DataUpdate(i, f)
    \/ \E i \in AnyIndex, j \in AnyIndex : DataSwap(i, j)

\* The arrays of a linked list arena called with any index.
SpecAbort == InitList /\ [][NextAbort]_vars

C29_Construction ==
    /\ \A M \in StorageModes :
        \A builder \in {TrailBuilder_new, SparseSet_new_full(TrailBuilder_new, M, n).builder} :
            /\ ~BitSet_new_full(builder, M, 0).ok
            /\ ~BitSet_new_empty(builder, M, 0).ok
            /\ BitSet_new_full(builder, M, 0).builder = builder
            /\ BitSet_new_empty(builder, M, 0).builder = builder
            /\ BitSet_new_full(builder, M, 1).ok
            /\ BitSet_new_empty(builder, M, 1).ok
    /\ n = 0 =>
        /\ ~panicked
        /\ SparseSet_len(Cur, handles) = 0
        /\ SparseSet_is_empty(Cur, handles)
        /\ \A v \in 0..(MaxN + 1) : ~SparseSet_contains(Cur, handles, v)

\* C29 happens: a call was made on a sparse set built with n = 0.
C29_Witness ==
    /\ n = 0
    /\ op \in {"remove", "filter", "intersect"}
    /\ SparseSet_is_empty(Cur, handles)

\* C30: new_full(n) gives capacity() = n and contains(v) exactly for v < n, every
\* block, the last with its unused high bits, being all ones; new_empty(n) gives
\* capacity() = n and contains(v) for no v.
C30_NewBitSet ==
    op \in {"new_full", "new_empty"} =>
        /\ BitSet_capacity(handles) = arg.len
        /\ Array_len(handles.blocks) = ((arg.len - 1) \div BLOCK_SIZE) + 1
        /\ \A v \in 0..(arg.len + BLOCK_SIZE) :
            BitSet_contains(Cur, handles, v) <=> (op = "new_full" /\ v < arg.len)
        /\ \A i \in 0..(Array_len(handles.blocks) - 1) :
            Array_get(Cur, handles.blocks, i) = (IF op = "new_full" THEN AllOnes ELSE {})

\* C30 happens: a full bit set was built whose last block has one bit in use and
\* the bit above it set.
C30_Witness ==
    /\ op = "new_full"
    /\ arg.len = BLOCK_SIZE + 1
    /\ BitSet_contains(Cur, handles, BLOCK_SIZE)
    /\ RepBit(Cur, BLOCK_SIZE + 1)


\* ------------------------------------------------ more claims on the bit set

\* C31: after clear() every block is 0, contains(v) is false for every v,
\* count_between is 0 for every pair of arguments, and next_above and next_below
\* are None for every argument, whatever the set held before.
C31_Clear ==
    op = "clear" =>
        /\ ~panicked
        /\ \A i \in 0..(Array_len(handles.blocks) - 1) : Array_get(Cur, handles.blocks, i) = {}
        /\ \A v \in 0..(handles.max + BLOCK_SIZE) : ~BitSet_contains(Cur, handles, v)
        /\ \A lo \in Args(handles), hi \in Args(handles) :
            BitSet_count_between(Cur, handles, lo, hi) = 0
        /\ BitSet_count_between(Cur, handles, 0, handles.max + BLOCK_SIZE) = 0
        /\ \A v \in Args(handles) :
            /\ BitSet_next_above(Cur, handles, v) = NONE
            /\ BitSet_next_below(Cur, handles, v) = NONE

\* C31 happens: a set of more than one block that held every value was cleared.
C31_Witness ==
    /\ op = "clear"
    /\ arg.held = handles.max + 1
    /\ handles.max >= BLOCK_SIZE
    /\ BitMembers(Cur) = {}


\* --------------------------------------------- more claims on the linked list

\* C32: right after LinkedListArena::new with n items and finish(), size() is n and
\* every node i < n has prev = next = itself and holds the ith item; nothing is on
\* the snapshot stack and the arena of the other mode is empty.
C32_NewList ==
    op = "finish" =>
        /\ ~panicked
        /\ LinkedListArena_size(handles) = arg.size
        /\ \A i \in 0..(arg.size - 1) :
            LET node == LinkedListArena_node(handles, i)
            IN /\ node.index = i
               /\ LinkedListNode_prev(Cur, node) = node
               /\ LinkedListNode_next(Cur, node) = node
               /\ LinkedListNode_data(Cur, node) = 10 + i
        /\ Array_len(handles.prev) = arg.size
        /\ Array_len(handles.next) = arg.size
        /\ \A M \in StorageModes : M # handles.data.M => memory(Cur, M) = <<>>

\* C32 happens: an arena of three nodes or more was built.
C32_Witness ==
    /\ op = "finish"
    /\ arg.size >= 3
    /\ LinkedListNode_data(Cur, LinkedListArena_node(handles, 2)) = 12
    /\ IsRing(Links(Cur))


\* ------------------------------------------------------ the iterator of an array

\* The builder calls of tests::array_iter, for an array of vals in mode M.
BuiltArray(M, vals) ==
    LET r == Array_new(TrailBuilder_new, M, vals, TYPE_u16)
    IN [trail |-> TrailBuilder_finish(r.builder), handle |-> r.handle]

\* Under SpecIter handles is the Array handle, before holds the iterator while one
\* is alive, shadow the items it has returned, last_set how often it has returned
\* None and arg what the last next returned.
InitIter ==
    \E M \in StorageModes, len \in 0..MaxLen :
        \E vals \in [1..len -> U16Vals] :
            /\ backtrackable_mem = BuiltArray(M, vals).trail.backtrackable_mem
            /\ non_backtrackable_mem = BuiltArray(M, vals).trail.non_backtrackable_mem
            /\ trail = BuiltArray(M, vals).trail.trail
            /\ panicked = BuiltArray(M, vals).trail.panicked
            /\ handles = BuiltArray(M, vals).handle
            /\ op = "finish"
            /\ arg = NONE
            /\ shadow = <<>>
            /\ before = <<>>
            /\ last_set = 0
            /\ levels = <<>>
            /\ unwound = <<>>
            /\ calls = NoCalls
            /\ pre = 0

\* array.iter(&trail), when no iterator borrows the trail
IterNew ==
    /\ before = <<>>
    /\ before' = <<ArrayIter(handles)>>
    /\ op' = "iter"
    /\ shadow' = <<>>
    /\ last_set' = 0
    /\ UNCHANGED <<backtrackable_mem, non_backtrackable_mem, trail, panicked, handles,
                   arg, levels, unwound, calls, pre>>

\* iter.next()
IterNext ==
    /\ before # <<>>
    /\ last_set < MaxNone
    /\ LET r == ArrayIter_next(Cur, before[1])
       IN /\ before' = <<r.iter>>
          /\ arg' = r.item
          /\ shadow' = IF r.item = NONE THEN shadow ELSE Append(shadow, r.item)
          /\ last_set' = IF r.item = NONE THEN last_set + 1 ELSE last_set
    /\ op' = "next"
    /\ UNCHANGED <<backtrackable_mem, non_backtrackable_mem, trail, panicked, handles,
                   levels, unwound, calls, pre>>

\* The iterator is dropped and its borrow of the trail ends.
IterDrop ==
    /\ before # <<>>
    /\ before' = <<>>
    /\ op' = "drop"
    /\ shadow' = <<>>
    /\ last_set' = 0
    /\ UNCHANGED <<backtrackable_mem, non_backtrackable_mem, trail, panicked, handles,
                   arg, levels, unwound, calls, pre>>

\* array.set(&mut trail, i, new_val), when no iterator borrows the trail
IterSet(i, new_val) ==
    /\ before = <<>>
    /\ Becomes(Array_set(Cur, handles, i, new_val))
    /\ op' = "set"
    /\ UNCHANGED <<handles, arg, shadow, before, last_set, levels, unwound, calls, pre>>

NextIter ==
    \/ IterNew
    \/ IterNext
    \/ IterDrop
    \/ \E i \in 0..(Array_len(handles) - 1), new_val \in U16Vals : IterSet(i, new_val)

\* An array on a trail and one iterator over it at a time.
SpecIter == InitIter /\ [][NextIter]_vars

\* C33: the items an iterator has returned are the current values of the elements
\* 0, 1, ... in index order; it returns None only after len items, and then on every
\* call; an iterator over an empty array returns nothing but None.
C33_ArrayIter ==
    before # <<>> =>
        LET it == before[1]
            len == Array_len(handles)
        IN /\ ~panicked
           /\ it.index = Len(shadow)
           /\ it.index <= len
           /\ shadow = [k \in 1..it.index |-> Array_get(Cur, handles, k - 1)]
           /\ last_set > 0 => (it.index = len /\ shadow = Array_iter(Cur, handles))
           /\ (op = "next" /\ arg = NONE) => last_set > 0
           /\ (op = "next" /\ last_set > 0) => arg = NONE
           /\ (op = "next" /\ last_set = 0) => (arg = shadow[Len(shadow)] /\ Len(shadow) >= 1)

\* C33 happens: an iterator over three elements that are not all the same has
\* returned them and then None twice.
C33_Witness ==
    /\ before # <<>>
    /\ op = "next"
    /\ last_set >= 2
    /\ Len(shadow) >= 3
    /\ shadow[1] # shadow[2]
    /\ shadow[2] = shadow[3]


\* C34: for every snapshot on the stack, L being the len it saved (the len at its
\* new_level), the values at the indices below L are the members of that time, and
\* every one of them that is not a member now lies at an index from len up to L.
C34_PrefixPreserved ==
    /\ Len(shadow) = Len(trail)
    /\ \A k \in 1..Len(trail) :
        LET L == shadow[k].len
        IN /\ handles.len.M = "Backtrackable" =>
                    Pointer_get(trail[k], handles.len.pointer) = L
           /\ SparseSet_len(Cur, handles) <= L
           /\ {values(i) : i \in 0..(L - 1)} = shadow[k].members
           /\ \A v \in shadow[k].members \ Members(Cur) :
                    /\ SparseSet_len(Cur, handles) <= positions(v)
                    /\ positions(v) < L

\* C34 happens: under two snapshots that saved different lens, a filter or an
\* intersect has dropped members of both and left values away from their first
\* indices.
C34_Witness ==
    /\ op \in {"filter", "intersect"}
    /\ Len(trail) = 2
    /\ shadow[1].len > shadow[2].len
    /\ shadow[2].len > SparseSet_len(Cur, handles)
    /\ shadow[2].len < n
    /\ \E v \in shadow[2].members \ Members(Cur) : positions(v) # v


\* ------------------------------------------------ the loop of SparseSet::filter

\* Under SpecFilter unwound holds the frame of a running filter: the values f
\* accepts, the positions left, the values f was called with, and the members and
\* the trail at the call.

\* sparse_set.filter(&mut trail, f) is called: the range 0..len is taken.
FilterBegin(keep) ==
    /\ ~panicked
    /\ unwound = <<>>
    /\ unwound' = <<[keep |-> keep, todo |-> SparseSet_len(Cur, handles), tested |-> <<>>,
                     members |-> Members(Cur), t0 |-> Cur]>>
    /\ op' = "filter_begin"
    /\ UNCHANGED <<backtrackable_mem, non_backtrackable_mem, trail, panicked, handles,
                   arg, shadow, before, last_set, levels, calls, pre>>

\* One pass of the loop, at the highest position left.
FilterVisit ==
    /\ unwound # <<>>
    /\ unwound[1].todo > 0
    /\ LET r == FilterStep(Cur, handles, unwound[1].keep, unwound[1].todo - 1)
       IN /\ Becomes(r.t)
          /\ unwound' = <<[unwound[1] EXCEPT !.todo = @ - 1, !.tested = Append(@, r.val)]>>
    /\ op' = "filter_visit"
    /\ UNCHANGED <<handles, arg, shadow, before, last_set, levels, calls, pre>>

\* The range is exhausted and filter returns.
FilterReturn ==
    /\ unwound # <<>>
    /\ unwound[1].todo = 0
    /\ unwound' = <<>>
    /\ op' = "filter"
    /\ UNCHANGED <<backtrackable_mem, non_backtrackable_mem, trail, panicked, handles,
                   arg, shadow, before, last_set, levels, calls, pre>>

NextFilter ==
    \/ \E keep \in SUBSET (0..(n - 1)) : FilterBegin(keep)
    \/ FilterVisit
    \/ FilterReturn
    \/ \E val \in 0..(MaxN + 1) : unwound = <<>> /\ Remove(val)
    \/ unwound = <<>> /\ SetNewLevel
    \/ unwound = <<>> /\ SetBacktrack

\* A sparse set on a trail whose filter runs one position at a time.
SpecFilter == InitSparse /\ [][NextFilter]_vars

\* C35: while filter runs, f has been called at most once with any value and only
\* with members of the time of the call, and the positions still to be visited
\* hold the members it has not been called with; when the loop ends f has been
\* called exactly once with each of those members.
C35_FilterOnce ==
    unwound # <<>> =>
        LET frame == unwound[1]
            ahead == {values(i) : i \in 0..(frame.todo - 1)}
        IN /\ ~panicked
           /\ frame.todo <= SparseSet_len(Cur, handles)
           /\ Cardinality(Elems(frame.tested)) = Len(frame.tested)
           /\ Elems(frame.tested) \subseteq frame.members
           /\ ahead = frame.members \ Elems(frame.tested)
           /\ Cardinality(ahead) = frame.todo
           /\ frame.todo = 0 =>
                /\ Elems(frame.tested) = frame.members
                /\ Len(frame.tested) = Cardinality(frame.members)
                /\ frame.tested = FilterLoop(frame.t0, handles, frame.keep,
                                             SparseSet_len(frame.t0, handles), <<>>).tested
                /\ Cur = SparseSet_filter(frame.t0, handles, frame.keep)

\* C35 happens: after an accepted value, a rejection has swapped that value into
\* the position just visited, with positions left to visit, in a set whose values
\* earlier operations had moved.
C35_Witness ==
    /\ unwound # <<>>
    /\ op = "filter_visit"
    /\ unwound[1].todo >= 1
    /\ Len(unwound[1].tested) >= 2
    /\ unwound[1].tested[2] \notin unwound[1].keep
    /\ values(unwound[1].todo) = unwound[1].tested[1]
    /\ \E i \in 0..(n - 1) : Array_get(unwound[1].t0, handles.values, i) # i


\* --------------------------------------------- where the handles lie in an arena

\* The byte offsets of a window of size bytes at offset.
Window(offset, size) == offset..(offset + size - 1)

\* The windows of the three handles of SpecMem, and of element i of the array.
PointerWindow(k) == Window(handles.pointer[k].offset, handles.pointer[k].T.LENGTH)
ArrayWindow ==
    Window(handles.array.offset, handles.array.T.LENGTH * ArrayPointer_len(handles.array))
ElementWindow(i) ==
    Window(handles.array.offset + i * handles.array.T.LENGTH, handles.array.T.LENGTH)

\* A new on builder b took the offset Len(b), grew b by size bytes and left the
\* bytes b held.
Allocated(b, r, size) ==
    /\ r.pointer.offset = Len(b)
    /\ Len(r.builder) = Len(b) + size
    /\ SubSeq(r.builder, 1, Len(b)) = b

\* C36: a Pointer or ArrayPointer is placed at the byte length of its builder, which
\* it grows by its byte size, the builders of the two modes each counting their own
\* offsets; the windows of the handles of an arena lie inside it and are disjoint;
\* a set, update or swap through a handle leaves what every other handle and every
\* other array element reads.
C36_Layout ==
    /\ \A b \in {<<>>, Zeros(1), backtrackable_mem} :
        /\ \A val \in I16Vals : Allocated(b, Pointer_new(b, val, TYPE_i16), LENGTH_i16)
        /\ \A len \in 0..MaxLen : \A vals \in [1..len -> U16Vals] :
                /\ Allocated(b, ArrayPointer_new(b, vals, TYPE_u16), LENGTH_u16 * len)
                /\ ArrayPointer_new(b, vals, TYPE_u16).pointer.len = len
        /\ \A M \in StorageModes, other \in {<<>>, Zeros(3)} :
              LET builder == builder_put(builder_put(TrailBuilder_new, M, b),
                                         IF M = "Backtrackable" THEN "NonBacktrackable"
                                         ELSE "Backtrackable", other)
                  r == Value_new(builder, M, 0, TYPE_i16)
                  q == Array_new(builder, M, <<255, 256>>, TYPE_u16)
              IN /\ r.handle.pointer.offset = Len(b)
                 /\ q.handle.pointer.offset = Len(b)
                 /\ Len(builder_mut(r.builder, M)) = Len(b) + LENGTH_i16
                 /\ Len(builder_mut(q.builder, M)) = Len(b) + 2 * LENGTH_u16
                 /\ builder_put(r.builder, M, b) = builder
                 /\ builder_put(q.builder, M, b) = builder
    /\ handles.pointer[1].offset = 0
    /\ handles.array.offset = LENGTH_i16
    /\ handles.pointer[2].offset = LENGTH_i16 + LENGTH_u16 * ArrayPointer_len(handles.array)
    /\ Len(backtrackable_mem) = 2 * LENGTH_i16 + LENGTH_u16 * ArrayPointer_len(handles.array)
    /\ \A k \in 1..2 : PointerWindow(k) \subseteq 0..(Len(backtrackable_mem) - 1)
    /\ ArrayWindow \subseteq 0..(Len(backtrackable_mem) - 1)
    /\ PointerWindow(1) \cap PointerWindow(2) = {}
    /\ \A k \in 1..2 : PointerWindow(k) \cap ArrayWindow = {}
    /\ \A i \in 0..(ArrayPointer_len(handles.array) - 1) :
        /\ ElementWindow(i) \subseteq ArrayWindow
        /\ \A j \in 0..(ArrayPointer_len(handles.array) - 1) :
                i # j => ElementWindow(i) \cap ElementWindow(j) = {}
    /\ op \in {"Pointer::set", "Pointer::update"} =>
        /\ Pointer_get(backtrackable_mem, handles.pointer[3 - arg.slot])
                = Pointer_get(pre, handles.pointer[3 - arg.slot])
        /\ \A i \in 0..(ArrayPointer_len(handles.array) - 1) :
                ArrayPointer_get(backtrackable_mem, handles.array, i)
                    = ArrayPointer_get(pre, handles.array, i)
    /\ op \in {"ArrayPointer::set", "ArrayPointer::update", "ArrayPointer::swap"} =>
        /\ \A k \in 1..2 : Pointer_get(backtrackable_mem, handles.pointer[k])
                                = Pointer_get(pre, handles.pointer[k])
        /\ \A e \in 0..(ArrayPointer_len(handles.array) - 1) :
                (e # arg.i /\ (op = "ArrayPointer::swap" => e # arg.j)) =>
                    ArrayPointer_get(backtrackable_mem, handles.array, e)
                        = ArrayPointer_get(pre, handles.array, e)

\* C36 happens: a set through the pointer that lies behind an array of three
\* elements changed the arena, the pointer in front of the array holding -1.
C36_Witness ==
    /\ op = "Pointer::set"
    /\ arg.slot = 2
    /\ pre # backtrackable_mem
    /\ ArrayPointer_len(handles.array) = 3
    /\ Pointer_get(backtrackable_mem, handles.pointer[1]) = -1
    /\ ArrayPointer_get(backtrackable_mem, handles.array, 2) = 256


\* C37: len is in 0..n; remove, filter and intersect, whatever their argument,
\* return and leave len no larger than it was; backtrack leaves len in 0..n; the
\* last operation did not abort on len - 1 or on an index of values or positions.
C37_LenBounds ==
    /\ ~panicked
    /\ SparseSet_len(Cur, handles) \in 0..n
    /\ \A val \in 0..(MaxN + 1) :
        /\ ~SparseSet_remove(Cur, handles, val).panicked
        /\ SparseSet_len(SparseSet_remove(Cur, handles, val), handles)
                \in 0..SparseSet_len(Cur, handles)
    /\ \A keep \in SUBSET (0..(n - 1)) :
        /\ ~SparseSet_filter(Cur, handles, keep).panicked
        /\ SparseSet_len(SparseSet_filter(Cur, handles, keep), handles)
                \in 0..SparseSet_len(Cur, handles)
    /\ \A vals \in Inputs :
        /\ ~SparseSet_intersect(Cur, handles, vals).panicked
        /\ SparseSet_len(SparseSet_intersect(Cur, handles, vals), handles)
                \in 0..SparseSet_len(Cur, handles)
    /\ ~Trail_backtrack(Cur).panicked
    /\ SparseSet_len(Trail_backtrack(Cur), handles) \in 0..n

\* C37 happens: a backtrack has raised len to a value below n, under a snapshot
\* whose backtrack would raise it again.
C37_Witness ==
    /\ op = "backtrack"
    /\ before # <<>>
    /\ pre.dirty
    /\ before[1].len \in 1..(n - 1)
    /\ SparseSet_len(Cur, handles) = before[1].len
    /\ trail # <<>>
    /\ SparseSet_len(Trail_backtrack(Cur), handles) > SparseSet_len(Cur, handles)


\* C38: right after intersect(input), iter yields the members in strictly ascending
\* order, whatever the order of values and of input before the call.
C38_IntersectSorts ==
    op = "intersect" =>
        LET items == SparseSet_iter(Cur, handles)
        IN /\ ~panicked
           /\ Elems(items) = arg.want
           /\ \A k \in 1..(Len(items) - 1) : items[k] < items[k + 1]

\* C38 happens: an intersect with an input that was not in ascending order, on a set
\* whose iter was not in ascending order, left two members and dropped one.
C38_Witness ==
    /\ op = "intersect"
    /\ ~arg.ordered
    /\ SparseSet_len(Cur, handles) >= 2
    /\ SparseSet_len(Cur, handles) < n


\* ------------------------------------- claims on the arithmetic of the bit set

\* The arguments past the capacity: the last value of the last block, the first of
\* the block behind it and one a block further.
ArgsPast(s) ==
    Args(s) \cup {(s.max \div BLOCK_SIZE + 1) * BLOCK_SIZE - 1,
                  (s.max \div BLOCK_SIZE + 1) * BLOCK_SIZE,
                  s.max + BLOCK_SIZE + 1}

\* The nested calls of next_above(value) and next_below(value) on the set as it is,
\* with enough fuel for one call more than there are blocks.
AboveCalls(value) ==
    BitSet_next_above_calls(Cur, handles, value, Array_len(handles.blocks) + 1)
BelowCalls(value) ==
    BitSet_next_below_calls(Cur, handles, value, Array_len(handles.blocks) + 1)

\* C39: on every set and for every argument, insert, remove, contains, count_between,
\* next_above and next_below shift by 0..63 only, index blocks that exist only, and
\* take nothing from a smaller number in 64 - offset - 1 and value - to_skip; none
\* aborts, and what next_above and next_below return is None or at most max.
C39_Arithmetic ==
    /\ ~panicked
    /\ \A value \in ArgsPast(handles) :
        /\ value <= handles.max =>
            /\ BitSet_index_and_shift(handles, value).index \in 0..(Array_len(handles.blocks) - 1)
            /\ BitSet_index_and_shift(handles, value).shift \in 0..(BLOCK_SIZE - 1)
        /\ ~BitSet_insert(Cur, handles, value).panicked
        /\ ~BitSet_remove(Cur, handles, value).panicked
        /\ BitSet_contains(Cur, handles, value) \in BOOLEAN
        /\ \A max \in ArgsPast(handles) :
            /\ (value <= max /\ value <= handles.max) =>
                LET a == BitSet_count_between_arith(handles, value, max)
                IN /\ a.min_block_index \in 0..(Array_len(handles.blocks) - 1)
                   /\ a.max_block_index \in a.min_block_index..(Array_len(handles.blocks) - 1)
                   /\ a.min_shift \in 0..(BLOCK_SIZE - 1)
                   /\ a.max_shift \in 0..(BLOCK_SIZE - 1)
            /\ BitSet_count_between(Cur, handles, value, max) \in 0..(handles.max + 1)
        /\ \A k \in 1..Len(AboveCalls(value)) : AboveCalls(value)[k].ok
        /\ \A k \in 1..Len(BelowCalls(value)) : BelowCalls(value)[k].ok
        /\ AboveCalls(value)[Len(AboveCalls(value))].got = BitSet_next_above(Cur, handles, value)
        /\ BelowCalls(value)[Len(BelowCalls(value))].got = BitSet_next_below(Cur, handles, value)
        /\ BitSet_next_above(Cur, handles, value) \in {NONE} \cup 0..handles.max
        /\ BitSet_next_below(Cur, handles, value) \in {NONE} \cup 0..handles.max

\* C39 happens: next_below was called with a value past max on a set of several
\* blocks that holds max, and found it after a shift by 64 - offset - 1 > 0.
C39_Witness ==
    /\ op = "next_below"
    /\ arg.k = 1
    /\ arg.got = handles.max
    /\ Array_len(handles.blocks) = MaxBlocks
    /\ BelowCalls(handles.max + 1)[1].shift > 0
    /\ BelowCalls(handles.max + 1)[1].to_skip = 0

\* C40: next_above(value) and next_below(value) return on every set and for every
\* argument: each nested call is for a higher block (next_above) or a lower block
\* (next_below) than the call before it, and at most as many calls are nested in the
\* first as there are blocks.
C40_Terminates ==
    \A value \in ArgsPast(handles) :
        /\ AboveCalls(value)[Len(AboveCalls(value))].again = NONE
        /\ BelowCalls(value)[Len(BelowCalls(value))].again = NONE
        /\ Len(AboveCalls(value)) - 1 <= Array_len(handles.blocks)
        /\ Len(BelowCalls(value)) - 1 <= Array_len(handles.blocks)
        /\ \A k \in 1..(Len(AboveCalls(value)) - 1) :
                AboveCalls(value)[k + 1].value \div BLOCK_SIZE
                    > AboveCalls(value)[k].value \div BLOCK_SIZE
        /\ \A k \in 1..(Len(BelowCalls(value)) - 1) :
                BelowCalls(value)[k + 1].value \div BLOCK_SIZE
                    < BelowCalls(value)[k].value \div BLOCK_SIZE

\* C40 happens: next_above was called with 0 on a set of MaxBlocks blocks that holds
\* nothing, and as many calls were nested in it as there are blocks.
C40_Witness ==
    /\ op = "next_above"
    /\ arg.k = 0 - handles.max
    /\ arg.got = NONE
    /\ Array_len(handles.blocks) = MaxBlocks
    /\ Len(AboveCalls(0)) - 1 = MaxBlocks
    /\ Len(BelowCalls(handles.max)) = MaxBlocks

====
